---- MODULE Spec2Model ----
(***************************************************************************)
(* Job lifecycle and progress propagation of the yt-downloader:            *)
(*   lib/downloader/index.ts      executeDownload, downloadVideo,          *)
(*                                downloadPlaylist, convertToMp3           *)
(*   dist/workers/downloadWorker  processJob, finalizeFiles, startWorker   *)
(*   utils/queue.ts               job options (attempts, backoff)          *)
(*   app/api/jobs/[id]/events     the per-job server-sent event stream     *)
(*   app/api/files, app/api/download, app/api/jobs   the HTTP routes       *)
(*   lib/middleware/rateLimit.ts  the rate limiter of the download routes  *)
(*   components/ProgressList.tsx  the browser client of the event stream   *)
(* One job and one client stream are modelled.  Redis commands issued on   *)
(* the worker's connection take effect in the order they are issued.       *)
(***************************************************************************)
EXTENDS Integers, Sequences, FiniteSets, Bags, TLC

(***************************************************************************)
(* Bounds and program constants                                            *)
(***************************************************************************)
\* output chunks one subprocess emits before it exits
MaxChunks == 2
\* items of a playlist listing
MaxItems == 2
\* output chunks fed to a directly called executeDownload
MaxExecChunks == 3
\* events one client reads from its stream before it disconnects
MaxOut == 3
\* job.updateProgress commands of download callbacks that Redis has not yet
\* applied
MaxPending == 1
\* events of the queue that the web server has not yet read while no stream
\* has its handlers registered
MaxEvents == 2
\* events written while a stream listens that the web server has not yet read
MaxUnread == 1
\* heartbeats one stream sends
MaxHeartbeats == 1
\* queue.ts getDefaultJobOptions: attempts
Attempts == 3
\* downloadVideo / downloadPlaylist: Math.min(100, percent || 0)
PercentCap == 100

NoPercent == -1
NoIndex == -1

Min(a, b) == IF a <= b THEN a ELSE b

(***************************************************************************)
(* Paths: a file name is a base name (its characters) and an extension.    *)
(***************************************************************************)
NoPath == [base |-> <<>>, ext |-> "none"]
MkPath(b, e) == [base |-> b, ext |-> e]

\* path.extname / path.basename in convertToMp3: the extension is replaced
ConvertedPath(inputPath) == MkPath(inputPath.base, "mp3")

(***************************************************************************)
(* Output chunks.  A chunk is a sequence of lines (tokens); a line is a    *)
(* progress line "NN%", a 'Destination: p' line, a 'Merging formats into   *)
(* "p"' line, other text, or blank.                                        *)
(***************************************************************************)
Tok(k, v, p) == [k |-> k, v |-> v, p |-> p]
PctTok(v) == Tok("pct", v, NoPath)
DestTok(p) == Tok("dest", NoPercent, p)
MergeTok(p) == Tok("merge", NoPercent, p)
NoiseTok == Tok("noise", NoPercent, NoPath)
BlankTok == Tok("blank", NoPercent, NoPath)

RECURSIVE FirstOf(_, _, _)
\* index of the first token of kind k in chunk at or after position n, 0 if none
FirstOf(chunk, k, n) ==
    IF n > Len(chunk) THEN 0
    ELSE IF chunk[n].k = k THEN n
    ELSE FirstOf(chunk, k, n + 1)

\* chunk.match(/(\d+(?:\.\d+)?)%/): the first percentage of the chunk, or null
extractPercentage(chunk) ==
    LET n == FirstOf(chunk, "pct", 1)
    IN  IF n = 0 THEN NoPercent ELSE chunk[n].v

\* Destination marker first, then the merge marker, else null
extractFilePath(chunk) ==
    LET d == FirstOf(chunk, "dest", 1)
        m == FirstOf(chunk, "merge", 1)
    IN  IF d # 0 THEN chunk[d].p
        ELSE IF m # 0 THEN chunk[m].p
        ELSE NoPath

\* chunk.trim() is a non-empty string
TrimmedNonEmpty(chunk) == \E n \in 1..Len(chunk) : chunk[n].k # "blank"

\* typeof percent === "number" && percent >= lastPercent
AcceptsAny(percent, last) == percent # NoPercent
Accepts(percent, last) == percent # NoPercent /\ percent >= last

\* the percent values the stdout 'data' handler passes to onProgress
StdoutCalls(chunk, last) ==
    LET percent == extractPercentage(chunk)
    IN  IF Accepts(percent, last) THEN <<percent>> ELSE <<>>

\* the percent values the stderr 'data' handler passes to onProgress
StderrCalls(chunk, last) ==
    LET percent == extractPercentage(chunk)
    IN  IF Accepts(percent, last) THEN <<percent>>
        ELSE IF TrimmedNonEmpty(chunk) THEN <<last>>
        ELSE <<>>

\* lastPercent after either handler
NextLastPercent(chunk, last) ==
    LET percent == extractPercentage(chunk)
    IN  IF Accepts(percent, last) THEN percent ELSE last

\* filePath after either handler
NextFilePath(chunk, path) ==
    LET maybePath == extractFilePath(chunk)
    IN  IF maybePath # NoPath THEN maybePath ELSE path


(***************************************************************************)
(* Job payloads                                                            *)
(***************************************************************************)
Ids == <<"A", "B", "C">>
IdSet == {Ids[n] : n \in 1..Len(Ids)}
Range(s) == {s[n] : n \in 1..Len(s)}

\* playlist listings: the first n ids, n <= MaxItems
Listings == {SubSeq(Ids, 1, n) : n \in 0..Min(MaxItems, Len(Ids))}
\* options.selectedVideoIds, absent or empty is <<>>: nothing selected, one
\* id, two ids against the order of the listing, an id that is never listed
Selections == {<<>>, <<"B">>, <<"B", "A">>, <<"C">>}

\* getDefaultJobOptions, the defaultJobOptions of the download queue: the
\* attempts of the jobs the routes add (JOB_ATTEMPTS is not set)
DefaultJobOptionsOnce == [attempts |-> 1]
getDefaultJobOptions == [attempts |-> Attempts]

VideoJobs ==
    {[name |-> "video", format |-> f, listing |-> <<>>, sel |-> <<>>,
     attempts |-> getDefaultJobOptions.attempts] :
        f \in {"mp4", "mp3"}}
PlaylistJobs ==
    {[name |-> "playlist", format |-> f, listing |-> l, sel |-> s,
      attempts |-> getDefaultJobOptions.attempts] :
        f \in {"mp4", "mp3"}, l \in Listings, s \in Selections}
OtherJobs == {[name |-> "other", format |-> "mp4", listing |-> <<>>, sel |-> <<>>,
     attempts |-> getDefaultJobOptions.attempts]}
Jobs == VideoJobs \cup PlaylistJobs \cup OtherJobs
\* executeDownload called on its own with a recording progress callback
DirectCall == [name |-> "direct", format |-> "mp4", listing |-> <<>>, sel |-> <<>>,
     attempts |-> Attempts]

\* item.title of a listed item; the item B is listed without a title
Title(id) ==
    IF id = "B" THEN "" ELSE IF id = "A" THEN "T A"
    ELSE IF id = "C" THEN "T C" ELSE "T: A"
\* the characters of item.title
TitleChars(id) ==
    IF id = "B" THEN <<>> ELSE IF id = "A" THEN <<"T", " ", "A">>
    ELSE IF id = "C" THEN <<"T", " ", "C">> ELSE <<"T", ":", " ", "A">>
\* item.title || item.id
ItemLabelOfFirst(j, k) == IF Title(j.listing[1]) # "" THEN Title(j.listing[1]) ELSE j.listing[1]
ItemLabel(j, k) == IF Title(j.listing[k]) # "" THEN Title(j.listing[k]) ELSE j.listing[k]

\* const targetFormat = options.format === "mp3" ? "mp3" : "mp4"
TargetFormat(j) == IF j.format = "mp3" THEN "mp3" ELSE "mp4"

\* downloadPlaylist: selectedIds / itemsToDownload, as positions of the listing
ItemsInSelectionOrder(listing, sel) ==
    LET pos(id) == CHOOSE n \in 1..Len(listing) : listing[n] = id
        hit == SelectSeq(sel, LAMBDA id : id \in Range(listing))
    IN  IF Len(sel) > 0
        THEN [n \in 1..Len(hit) |-> pos(hit[n])]
        ELSE [n \in 1..Len(listing) |-> n]
ItemsToDownload(listing, sel) ==
    LET all == [n \in 1..Len(listing) |-> n]
    IN  IF Len(sel) > 0
        THEN SelectSeq(all, LAMBDA n : listing[n] \in Range(sel))
        ELSE all

\* the id an item is fetched by; item 0 is the url of a video job
ItemId(j, k) == IF k = 0 THEN "V" ELSE j.listing[k]
\* extension of the file yt-dlp writes for the format selector
RawExt(j) == IF TargetFormat(j) = "mp3" THEN "m4a" ELSE "mp4"

DigitChars == <<"0", "1", "2", "3", "4", "5", "6", "7", "8", "9">>
\* the characters of the alphabet outside [\w\s-], and its whitespace
Punctuation == {":", "/", "."}
Whitespace == {" "}
Untitled == <<"u", "n", "t", "i", "t", "l", "e", "d">>
\* .replace(/\s+/g, "_")
RECURSIVE Underscored(_)
Underscored(value) ==
    IF value = <<>> THEN <<>>
    ELSE IF Head(value) \notin Whitespace
    THEN <<Head(value)>> \o Underscored(Tail(value))
    ELSE IF Len(value) > 1 /\ value[2] \in Whitespace
    THEN Underscored(Tail(value))
    ELSE <<"_">> \o Underscored(Tail(value))
\* sanitizeName; nothing is left for trim() once whitespace is replaced
sanitizeName(value) ==
    LET kept == SelectSeq(IF value = <<>> THEN Untitled ELSE value,
                          LAMBDA c : c \notin Punctuation)
    IN  IF Underscored(kept) = <<>> THEN Untitled ELSE Underscored(kept)

\* item.title || `video_${i + 1}` for the item at position k of the listing,
\* i the index of the item in itemsToDownload
TitleOrIndex(j, k) ==
    LET itemsToDownload == ItemsToDownload(j.listing, j.sel)
        n == CHOOSE m \in 1..Len(itemsToDownload) : itemsToDownload[m] = k
    IN  IF TitleChars(j.listing[k]) # <<>> THEN TitleChars(j.listing[k])
        ELSE <<"v", "i", "d", "e", "o", "_", DigitChars[n + 1]>>
\* the file yt-dlp writes for item k from the output template: the title
\* yt-dlp finds for a video job, `${sanitizedTitle}.%(ext)s` for a playlist
OutPath(j, k) ==
    IF k = 0 THEN MkPath(<<"V">>, RawExt(j))
    ELSE MkPath(sanitizeName(TitleOrIndex(j, k)), RawExt(j))

Proc(kind, k) == [kind |-> kind, item |-> k]
\* the in-flight list without its first entry equal to x
RemoveOne(s, x) ==
    LET hits == {n \in 1..Len(s) : s[n] = x}
    IN  IF hits = {} THEN s
        ELSE LET h == CHOOSE n \in hits : \A m \in hits : n <= m
             IN  [n \in 1..(Len(s) - 1) |-> IF n < h THEN s[n] ELSE s[n + 1]]

(***************************************************************************)
(* Chunk alphabets                                                         *)
(***************************************************************************)
ExecPercents == {5, 10, 42, 100}
\* lines inside one chunk
ChunkLengths == {1, 2}
ExecPaths == {MkPath(<<"a">>, "mp4"), MkPath(<<"b">>, "mp4")}
ExecTokens ==
    {PctTok(v) : v \in ExecPercents} \cup {DestTok(p) : p \in ExecPaths}
        \cup {MergeTok(p) : p \in ExecPaths} \cup {NoiseTok, BlankTok}
ExecChunks == UNION {[1..m -> ExecTokens] : m \in ChunkLengths}

JobPercents == {50, 100}
JobChunks(j, k) ==
    {<<PctTok(v)>> : v \in JobPercents} \cup {<<DestTok(OutPath(j, k))>>}
\* the child emits 'error' instead of exiting with a code
ChildError == -1
\* how a subprocess ends: exit code 0, a non-zero exit code, or 'error'
ExitCodes == {0, 1, ChildError}

(***************************************************************************)
(* Progress values and queue events                                        *)
(***************************************************************************)
\* the data of a progress update; totalVideos and videoId are absent
\* (NoIndex, NoId) unless downloadPlaylist delivered it
NoId == "none"
Progress(percent, videoIndex) ==
    [kind |-> "object", percent |-> percent, videoIndex |-> videoIndex,
     totalVideos |-> NoIndex, videoId |-> NoId]
\* job.progress of a fresh job is the number 0
InitialProgress ==
    [kind |-> "number", percent |-> 0, videoIndex |-> NoIndex,
     totalVideos |-> NoIndex, videoId |-> NoId]
\* an error: what went wrong and the playlist item its message names
NoLabel == "none"
Err(kind, label) == [kind |-> kind, label |-> label]
NoErr == Err("none", NoLabel)
NoResult == [set |-> FALSE, files |-> <<>>]

Result(fs) == [set |-> TRUE, files |-> fs]
Ev(type, prog, res, reason) ==
    [type |-> type, progress |-> prog, result |-> res, reason |-> reason]

(***************************************************************************)
(* Download tokens and the file route.  Strings are sequences of           *)
(* characters; the HMAC of a payload under the fixed secret is taken to be *)
(* unforgeable and collision free, so it is represented by the payload.    *)
(***************************************************************************)
\* clock ticks the file route is observed for
MaxNow == 3
\* tokens signed while it is observed
MaxTokens == 1
\* lifetime of a token in clock ticks (getDefaultTtlSeconds)
TokenTtl == 2

RECURSIVE Decimal(_)
\* String(expiresAtMs)
Decimal(n) ==
    IF n < 10 THEN <<DigitChars[n + 1]>>
    ELSE Decimal(n \div 10) \o <<DigitChars[(n % 10) + 1]>>

\* `${String(jobId)}:${fileName}:${String(expiresAtMs)}`
PayloadWithoutFile(jobId, fileName, expiresAtMs) ==
    jobId \o <<":">> \o Decimal(expiresAtMs)
Payload(jobId, fileName, expiresAtMs) ==
    jobId \o <<":">> \o fileName \o <<":">> \o Decimal(expiresAtMs)

\* crypto.createHmac('sha256', secret).update(payload).digest('hex')
Hmac(payload) == payload

\* a token `v1.${expiresAtMs}.${signature}`; NoToken is an absent or
\* malformed token
Token(expiresAtMs, signature) == [exp |-> expiresAtMs, sig |-> signature]
NoToken == Token(0, <<>>)

\* signDownloadToken with the default expiry
signDownloadToken(jobId, fileName, t) ==
    Token(t + TokenTtl, Hmac(Payload(jobId, fileName, t + TokenTtl)))

\* verifyDownloadToken
verifyDownloadToken(jobId, fileName, token, t) ==
    /\ token # NoToken
    /\ token.exp > 0
    /\ ~(t > token.exp)
    /\ Hmac(Payload(jobId, fileName, token.exp)) = token.sig

RECURSIVE LastSlash(_, _)
\* position of the last "/" of file at or before n, 0 if none
LastSlash(file, n) ==
    IF n = 0 THEN 0
    ELSE IF file[n] = "/" THEN n
    ELSE LastSlash(file, n - 1)
RECURSIVE TrimSlashes(_, _)
\* length of file without the "/" it ends with, read up to n
TrimSlashes(file, n) ==
    IF n = 0 THEN 0
    ELSE IF file[n] = "/" THEN TrimSlashes(file, n - 1)
    ELSE n
\* path.basename(file): trailing "/" are ignored, then the part after the
\* last "/" is taken
Basename(file) ==
    LET end == TrimSlashes(file, Len(file))
    IN  SubSeq(file, LastSlash(file, end) + 1, end)

\* name.replace(/\.\.+/g, ""): runs of two or more dots are removed
InDotRun(name, n) ==
    /\ name[n] = "."
    /\ \/ (n > 1 /\ name[n - 1] = ".")
       \/ (n < Len(name) /\ name[n + 1] = ".")
RECURSIVE StripDotRuns(_, _)
StripDotRuns(name, n) ==
    IF n > Len(name) THEN <<>>
    ELSE (IF InDotRun(name, n) THEN <<>> ELSE <<name[n]>>)
             \o StripDotRuns(name, n + 1)
\* resolveFilePath: the name of the file that is read
SafeName(fileName) == StripDotRuns(Basename(fileName), 1)

\* the jobs of the queue, by id: their state, the file names of their
\* returnvalue, and the files under storage/<jobId>/files
StoredJobs ==
    {[id |-> <<"1">>, state |-> "completed",
      result |-> <<<<"a">>, <<"2", ":", "a">>, <<"c", ".", ".", "d">>>>,
      files |-> {<<"a">>, <<"2", ":", "a">>, <<"c", ".", ".", "d">>}],
     [id |-> <<"1", "2">>, state |-> "completed",
      result |-> <<<<"a">>>>, files |-> {<<"a">>}],
     [id |-> <<"3">>, state |-> "active", result |-> <<>>, files |-> {<<"a">>}],
     [id |-> <<"4">>, state |-> "failed", result |-> <<>>, files |-> {<<"a">>}],
     [id |-> <<"5">>, state |-> "waiting", result |-> <<>>, files |-> {}],
     [id |-> <<"6">>, state |-> "delayed", result |-> <<>>, files |-> {}]}
\* jobId and file of a request
RequestJobIds ==
    {j.id : j \in StoredJobs} \cup {<<"9">>, <<"1", ":", "2">>}
RequestFiles ==
    {<<"a">>, <<"2", ":", "a">>, <<"c", ".", ".", "d">>, <<"x", "/", "a">>,
     <<"a", "/">>, <<"x", "/", "a", "/", "/">>, <<"/">>, <<".">>, <<".", ".">>}

\* downloadQueue.getJob(jobId)
HasJob(jobId) == \E j \in StoredJobs : j.id = jobId
GetStoredJob(jobId) == CHOOSE j \in StoredJobs : j.id = jobId

\* ensureJobCompleted: the state check
JobReadyOrFailed(j) == j.state \in {"completed", "failed"}
JobReady(j) == j.state = "completed"

\* resolveFilePath: path.join(baseDir, safeName) is the directory
\* storage/<jobId>/files itself for the names "" and "."
IsBaseDir(name) == name \in {<<>>, <<".">>}
\* the sizes a file system reports for a directory
DirSizes == {0, 2, 4096}
\* stat.size of a stored file, and of the directory, for which the file
\* system reports dirSize
StatSize(name, dirSize) ==
    IF IsBaseDir(name) THEN dirSize ELSE IF name = <<"a">> THEN 2 ELSE 0

\* a header that is absent, and the * of `bytes */size`
NoHeader == -1
Star == -2
\* the Range header: absent, not of the form bytes=<digits>-<digits>, or
\* the two digit strings of the match
NoRange == [given |-> FALSE, match |-> FALSE, first |-> <<>>, last |-> <<>>]
Unmatched == [given |-> TRUE, match |-> FALSE, first |-> <<>>, last |-> <<>>]
RangeDigits == {<<>>, <<"0">>, <<"1">>, <<"2">>, <<"0", "1">>}
RequestRanges ==
    {NoRange, Unmatched} \cup
    {[given |-> TRUE, match |-> TRUE, first |-> f, last |-> l] :
        f \in RangeDigits, l \in RangeDigits}

\* the value of a decimal digit
DigitValue(c) == (CHOOSE n \in 1..10 : DigitChars[n] = c) - 1
RECURSIVE ParseInt(_, _)
\* parseInt(digits, 10) of a non-empty string of digits, read up to n
ParseInt(digits, n) ==
    IF n = 0 THEN 0 ELSE 10 * ParseInt(digits, n - 1) + DigitValue(digits[n])

\* `bytes ${first}-${last}/${size}`
ContentRange(first, last, size) == [first |-> first, last |-> last, size |-> size]
NoContentRange == ContentRange(NoHeader, NoHeader, NoHeader)

\* the answer of a route: status, the file streamed and its bytes
\* first..last (NoHeader when the whole file is streamed), the files put in
\* the zip archive, and the Content-Range and Content-Length headers
Answer(status, served) ==
    [status |-> status, served |-> served, first |-> NoHeader, last |-> NoHeader,
     zipped |-> {}, contentRange |-> NoContentRange, contentLength |-> NoHeader]

\* the range check of the file route
RangeRejectedNoUpper(first, last, size) == first >= size \/ first > last
RangeRejected(first, last, size) ==
    first >= size \/ last >= size \/ first > last

\* the file route once the token is verified: resolveFilePath, stat, Range.
\* fs.promises.stat throws for a path that does not exist and the catch
\* answers 500; it resolves for the directory, whose stream then fails
\* without any file content
ServeFile(jobId, fileName, range, dirSize) ==
    LET name == SafeName(fileName)
        size == StatSize(name, dirSize)
        streamed == IF IsBaseDir(name) THEN <<>> ELSE name
        first == IF range.first # <<>>
                 THEN ParseInt(range.first, Len(range.first)) ELSE 0
        last == IF range.last # <<>>
                THEN ParseInt(range.last, Len(range.last)) ELSE size - 1
    IN  IF name \notin GetStoredJob(jobId).files /\ ~IsBaseDir(name)
        THEN Answer(500, <<>>)
        ELSE IF ~range.given
        THEN [Answer(200, streamed) EXCEPT !.contentLength = size]
        ELSE IF ~range.match THEN Answer(200, streamed)
        ELSE IF RangeRejected(first, last, size)
        THEN [Answer(416, <<>>) EXCEPT
                 !.contentRange = ContentRange(Star, Star, size)]
        ELSE [Answer(206, streamed) EXCEPT
                 !.first = first, !.last = last,
                 !.contentRange = ContentRange(first, last, size),
                 !.contentLength = last - first + 1]

\* GET /api/files/[jobId]/[file]; queueOk: getJob and getState answer (the
\* catch answers 500 for an error that is neither 'Job not found' nor
\* 'Job not ready'); dirSize: the size the file system reports for the
\* directory storage/<jobId>/files
FileRoute(jobId, file, token, range, t, queueOk, dirSize) ==
    LET fileName == Basename(file)
    IN  IF ~queueOk THEN Answer(500, <<>>)
        ELSE IF ~HasJob(jobId) THEN Answer(404, <<>>)
        ELSE IF ~JobReady(GetStoredJob(jobId)) THEN Answer(409, <<>>)
        ELSE IF ~verifyDownloadToken(jobId, fileName, token, t)
        THEN Answer(403, <<>>)
        ELSE ServeFile(jobId, fileName, range, dirSize)

\* the file route calls fs.promises.stat on the directory
\* storage/<jobId>/files
StatsDirectory(jobId, file, token, t, queueOk) ==
    /\ queueOk
    /\ HasJob(jobId)
    /\ JobReady(GetStoredJob(jobId))
    /\ verifyDownloadToken(jobId, Basename(file), token, t)
    /\ IsBaseDir(SafeName(Basename(file)))

\* GET /api/files/[jobId]/zip; the token is checked when the name of the
\* first file is not empty
ZipRoute(jobId, token, t, queueOk) ==
    LET j == GetStoredJob(jobId)
        existingFiles == {j.result[k] : k \in {n \in 1..Len(j.result) :
                              Basename(j.result[n]) \in j.files}}
    IN  IF ~queueOk THEN Answer(500, <<>>)
        ELSE IF ~HasJob(jobId) THEN Answer(404, <<>>)
        ELSE IF ~JobReady(j) THEN Answer(409, <<>>)
        ELSE IF Len(j.result) = 0 THEN Answer(404, <<>>)
        ELSE IF /\ j.result[1] # <<>>
                /\ \A k \in 1..Len(j.result) :
                      ~verifyDownloadToken(jobId, j.result[k], token, t)
        THEN Answer(403, <<>>)
        ELSE IF existingFiles = {} THEN Answer(404, <<>>)
        ELSE [Answer(200, <<>>) EXCEPT !.zipped = existingFiles]

\* a request, the size of the job's directory when it was made, and its
\* answer
Response(route, jobId, file, token, range, t, queueOk, dirSize, answer) ==
    [route |-> route, jobId |-> jobId, file |-> file, token |-> token,
     range |-> range, at |-> t, queue |-> queueOk, dirSize |-> dirSize,
     status |-> answer.status,
     served |-> answer.served, first |-> answer.first, last |-> answer.last,
     zipped |-> answer.zipped, contentRange |-> answer.contentRange,
     contentLength |-> answer.contentLength]
\* no request has been answered
NoResp ==
    Response("none", <<>>, <<>>, NoToken, NoRange, 0, TRUE, 0, Answer(0, <<>>))

(***************************************************************************)
(* The download routes and the job route                                   *)
(***************************************************************************)
\* jobs the download routes add while they are observed
MaxAdds == 2

\* the url field of a request body: absent, a non-string value (a number
\* other than 0), the empty string, or a string; a string that new URL()
\* parses has a protocol and a hostname (its labels).  A body that is not
\* JSON has no url field.
Url(type, parses, protocol, host) ==
    [type |-> type, parses |-> parses, protocol |-> protocol, host |-> host]
WebUrl(protocol, host) == Url("string", TRUE, protocol, host)
RequestUrls ==
    {Url("invalid-json", FALSE, "", <<>>),
     Url("undefined", FALSE, "", <<>>), Url("number", FALSE, "", <<>>),
     Url("empty", FALSE, "", <<>>), Url("string", FALSE, "", <<>>),
     WebUrl("https:", <<"youtu", "be">>), WebUrl("http:", <<"youtube", "com">>),
     WebUrl("https:", <<"www", "youtube", "com">>),
     WebUrl("https:", <<"YouTube", "COM">>),
     WebUrl("ftp:", <<"youtube", "com">>),
     WebUrl("https:", <<"m", "youtu", "be">>),
     WebUrl("https:", <<"notyoutube", "com">>),
     WebUrl("https:", <<"youtube", "com", "evil", "net">>),
     WebUrl("https:", <<"example", "org">>)}

\* String.prototype.toLowerCase on a label of the hostname
ToLowerCase(label) ==
    IF label = "YouTube" THEN "youtube" ELSE IF label = "COM" THEN "com" ELSE label
\* host.endsWith('.' + suffix)
EndsWithDot(host, suffix) ==
    /\ Len(host) > Len(suffix)
    /\ SubSeq(host, Len(host) - Len(suffix) + 1, Len(host)) = suffix

\* the host test of isAllowedYouTubeUrl
AllowedHost(host) ==
    \/ host = <<"youtu", "be">>
    \/ host = <<"youtube", "com">>
    \/ EndsWithDot(host, <<"youtube", "com">>)

isAllowedYouTubeUrl(value) ==
    /\ value.parses
    /\ value.protocol \in {"http:", "https:"}
    /\ AllowedHost([k \in 1..Len(value.host) |-> ToLowerCase(value.host[k])])

\* the body of a request that is not JSON
InvalidJson == Url("invalid-json", FALSE, "", <<>>)
\* !url: the url field is absent or the empty string
Falsy(url) == url.type \in {"undefined", "empty"}

\* the x-api-key header and process.env.API_KEY: absent, or a key
NoKey == "none"
ApiKeys == {NoKey, "k1", "k2"}
\* validateApiKey of the job route and of the keyed download handlers
validateApiKey(headerKey, envKey) == envKey # NoKey /\ headerKey = envKey

\* The sources hold three POST handlers for each of /api/download/video and
\* /api/download/playlist.  Each answers with a status and either calls
\* downloadQueue.add successfully or does not.

\* the handler that checks the url: invalid JSON, then !url or a url that
\* is not a string, then isAllowedYouTubeUrl, then downloadQueue.add
CheckedRoute(url, queueUp) ==
    IF url = InvalidJson THEN [status |-> 400, added |-> FALSE]
    ELSE IF Falsy(url) \/ url.type # "string" THEN [status |-> 400, added |-> FALSE]
    ELSE IF ~isAllowedYouTubeUrl(url) THEN [status |-> 400, added |-> FALSE]
    ELSE IF ~queueUp THEN [status |-> 500, added |-> FALSE]
    ELSE [status |-> 202, added |-> TRUE]

\* the handler behind an API key: validateApiKey, invalid JSON, then !url,
\* then downloadQueue.add with the url as it came
KeyedRoute(headerKey, envKey, url, queueUp) ==
    IF ~validateApiKey(headerKey, envKey) THEN [status |-> 401, added |-> FALSE]
    ELSE IF url = InvalidJson THEN [status |-> 400, added |-> FALSE]
    ELSE IF Falsy(url) THEN [status |-> 400, added |-> FALSE]
    ELSE IF ~queueUp THEN [status |-> 500, added |-> FALSE]
    ELSE [status |-> 202, added |-> TRUE]

\* the rate-limited handler: 429 when checkRateLimit denies the request,
\* else the checks of the handler that checks the url
LimitedRoute(rate, body, queueUp) ==
    IF ~rate.allowed THEN [status |-> 429, added |-> FALSE]
    ELSE CheckedRoute(body, queueUp)

\* POST /api/download/video and POST /api/download/playlist, by handler
DownloadRoute(handler, headerKey, envKey, rate, url, queueUp) ==
    IF handler = "keyed" THEN KeyedRoute(headerKey, envKey, url, queueUp)
    ELSE IF handler = "limited" THEN LimitedRoute(rate, url, queueUp)
    ELSE CheckedRoute(url, queueUp)

\* GET /api/jobs/[id]: the status of the answer; queueOk: getJob and
\* getState answer (the catch answers 500)
JobRoute(id, headerKey, envKey, queueOk) ==
    IF ~validateApiKey(headerKey, envKey) THEN 401
    ELSE IF id = <<>> THEN 400
    ELSE IF ~queueOk THEN 500
    ELSE IF ~HasJob(id) THEN 404
    ELSE 200

\* a request to one of these routes and the status of its answer
Post(route, url, id, headerKey, envKey, status) ==
    [route |-> route, url |-> url, id |-> id, header |-> headerKey,
     env |-> envKey, status |-> status]
NoPost == Post("none", Url("undefined", FALSE, "", <<>>), <<>>, NoKey, NoKey, 0)

(***************************************************************************)
(* The rate limiter of the download routes: lib/middleware/rateLimit.ts    *)
(***************************************************************************)
\* length of a window in clock ticks (RATE_LIMIT_WINDOW_MS)
WindowMs == 1
\* RATE_LIMIT_MAX of the video route and of the playlist route
VideoMax == 10
PlaylistMax == 5
\* requests the limiter is observed for
MaxChecks == 4
\* requests that have passed the limiter and are not yet answered
MaxInFlight == 2

LimiterNames == {"download:video", "download:playlist"}
RateMax(name) == IF name = "download:video" THEN VideoMax ELSE PlaylistMax

\* the x-forwarded-for header of a request: absent, or a list of addresses
NoForwarded == <<>>
ForwardedFor == {NoForwarded, <<"1.1.1.1", "2.2.2.2">>}
\* forwardedFor.split(",")[0].trim(), undefined without the header
ClientIp(forwardedFor) ==
    IF forwardedFor = NoForwarded THEN NoForwarded ELSE <<forwardedFor[1]>>
\* headers['x-forwarded-for'] || ip || 'unknown'
keyGenerator(forwardedFor, ip) ==
    IF forwardedFor # NoForwarded THEN forwardedFor
    ELSE IF ip # NoForwarded THEN ip
    ELSE <<"unknown">>
ClientKeys == {keyGenerator(f, ClientIp(f)) : f \in ForwardedFor}

\* map.get(key) of a key the map does not hold
NoRecord == [count |-> 0, start |-> -1]

\* now - record.start > windowMs
WindowExpiredAlways(t, start) == TRUE
WindowExpired(t, start) == t - start > WindowMs

\* checkRateLimit: the answer and the map it leaves
checkRateLimit(map, key, t, max) ==
    LET record == IF map[key] = NoRecord THEN [count |-> 0, start |-> t]
                  ELSE map[key]
    IN  IF WindowExpired(t, record.start)
        THEN [allowed |-> TRUE, remaining |-> max - 1,
              map |-> [map EXCEPT ![key] = [count |-> 1, start |-> t]]]
        ELSE IF record.count >= max
        THEN [allowed |-> FALSE, remaining |-> 0, map |-> map]
        ELSE [allowed |-> TRUE, remaining |-> max - (record.count + 1),
              map |-> [map EXCEPT ![key] = [record EXCEPT !.count = @ + 1]]]

RECURSIVE After(_, _, _, _)
\* the map n calls of checkRateLimit for key at time 0 leave
After(n, map, key, max) ==
    IF n = 0 THEN map
    ELSE checkRateLimit(After(n - 1, map, key, max), key, 0, max).map
\* the key of a client that sends no x-forwarded-for header, the answered
\* request checked records for one of its earlier requests, and their number
PriorKey == keyGenerator(NoForwarded, ClientIp(NoForwarded))
PriorRecord(name) ==
    [name |-> name, key |-> PriorKey, t |-> 0, allowed |-> TRUE, start |-> 0]
PriorChecks == (VideoMax - 1) + (PlaylistMax - 1)

\* the body of a request to a rate-limited route: not JSON, or a url field
LimitedBodies ==
    {InvalidJson, WebUrl("https:", <<"youtu", "be">>),
     WebUrl("https:", <<"example", "org">>)}

(***************************************************************************)
(* Several jobs processed by one worker: execution slots and the per-job   *)
(* directories                                                             *)
(***************************************************************************)
\* CONCURRENCY: the number of jobs the worker processes at once
Concurrency == 2
\* the processJob calls the worker is observed for
MaxPoolRuns == 3
\* new Worker("download", processJob, { concurrency: CONCURRENCY }): the
\* execution slots of the worker
SlotsOneMore == 1..(Concurrency + 1)
Slots == 1..Concurrency
\* String(job.id) of the jobs in the queue; NoJob is an empty slot
PoolJobs == {"1", "2", "12"}
NoJob == "none"
\* a job: its state, the position of its processJob, the attempts that
\* failed, whether the current processJob has thrown, the path its media
\* operation returned, and the ensureDir calls of its prepareFileSystem
\* that have not settled
PoolJob(st, at, made, threw) ==
    [st |-> st, pc |-> at, made |-> made, threw |-> threw, path |-> <<>>,
     calls |-> {}]

\* A path is a sequence of names and a name a sequence of characters; the
\* names tmp, storage and files are written as one character each.
\* the characters of String(job.id)
IdChars(jobId) == IF jobId = "12" THEN <<"1", "2">> ELSE <<jobId>>
\* layout.tempDir / layout.filesDir
tempDir(jobId) == <<<<"tmp">>, IdChars(jobId)>>
filesDir(jobId) == <<<<"storage">>, IdChars(jobId), <<"files">>>>
\* the file the subprocess writes under the output directory
FileIn(dir) == dir \o <<<<"v">>>>
\* path p is dir or lies below it
Under(p, dir) == Len(p) >= Len(dir) /\ SubSeq(p, 1, Len(dir)) = dir
\* the directories above path p
Ancestors(p) == {SubSeq(p, 1, n) : n \in 1..(Len(p) - 1)}

RECURSIVE PathChars(_)
\* the path as yt-dlp prints it: the names joined by "/"
PathChars(p) ==
    IF Len(p) = 0 THEN <<>>
    ELSE IF Len(p) = 1 THEN p[1]
    ELSE p[1] \o <<"/">> \o PathChars(Tail(p))
RECURSIVE FirstSlash(_, _)
\* position of the first "/" of chars at or after n, 0 if none
FirstSlash(chars, n) ==
    IF n > Len(chars) THEN 0
    ELSE IF chars[n] = "/" THEN n
    ELSE FirstSlash(chars, n + 1)
RECURSIVE Names(_)
\* the path a string names to path.basename and fs.move: its names, a "/"
\* at its end ignored
Names(chars) ==
    LET n == FirstSlash(chars, 1)
    IN  IF chars = <<>> THEN <<>>
        ELSE IF n = 0 THEN <<chars>>
        ELSE <<SubSeq(chars, 1, n - 1)>> \o Names(SubSeq(chars, n + 1, Len(chars)))
\* what extractFilePath reads from the chunk that holds the first n
\* characters of the path of a Destination line, the chunk ending there
\* (<<>>: no match); a chunk that holds the whole line gives the path
CutPath(p, n) == Names(SubSeq(PathChars(p), 1, n))
\* path.basename(originalPath)
LastName(p) == p[Len(p)]

VARIABLES
    job,            \* the job's name and payload
    state,          \* waiting | active | delayed | completed | failed
    attemptsMade,   \* failed attempts counted by the queue
    runs,           \* times processJob was started
    progress,       \* job.progress as persisted
    returnvalue,    \* job.returnvalue
    failedReason,   \* job.failedReason
    pc,             \* position of the worker in processJob
    items,          \* itemsToDownload (positions of the listing)
    i,              \* loop index of downloadPlaylist (1-based)
    files,          \* files[] of the media operation, in temp
    movedFiles,     \* moved[] of finalizeFiles
    spawned,        \* items a subprocess was spawned for in this attempt
    started,        \* downloadVideo: a progress callback was seen
    err,            \* the error thrown in this attempt
    outcome,        \* how processJob settled: none | return | throw
    procs,          \* subprocesses in flight
    lastPercent,    \* executeDownload
    filePath,       \* executeDownload
    calls,          \* percent values executeDownload passed to onProgress
    nchunks,        \* chunks the current subprocess has emitted
    exited,         \* the executeDownload calls of the attempt whose child
                    \* has exited: what their 'data' handlers still hold
    ensuring,       \* ensureDir calls of prepareFileSystem not yet settled
    tmpExists,      \* tmp/<jobId> exists
    tmpFiles,       \* files under tmp/<jobId>
    storage,        \* files under storage/<jobId>/files
    deadLetter,     \* records of the download-failed queue
    sub,            \* client stream: none | registered | gotjob | open |
                    \* closed (by the server) | cancelled (by the client)
    subState,       \* job state when the client subscribed
    snap,           \* the job object getJob returned to the stream
    out,            \* events the stream has sent
    events,         \* the queue's events on their way to the web server
    published,      \* completed / error events published on the pub/sub channel
    bus,            \* the worker's publisher: notready | ok | fail
    now,            \* the clock (Date.now()), in ticks
    tokens,         \* download tokens signed so far
    resp,           \* the last response of the file route
    added,          \* the jobs the download routes added to the queue
    post,           \* the last request to a download route or the job route
    slot,           \* the job each execution slot of the worker is running
    pool,           \* the jobs of the queue when several are processed
    disk,           \* the paths that exist under tmp/ and storage/
    effects,        \* the paths the last file-system call touched, with its job
    limits,         \* rateLimitMaps: per limiter name and client key, a record
    checked,        \* the requests checkRateLimit has answered
    text,           \* the output a subprocess prints, when it is fixed
                    \* beforehand, and how much of it has been delivered
    client,         \* ProgressList in the browser, for one tracked job
    updates,        \* job.updateProgress commands issued and not yet applied
    sweep,          \* position of a run of the storage cleanup script
    requests        \* requests to a download route between the rate check
                    \* and the answer

jobVars == <<job, state, attemptsMade, runs, progress, returnvalue, failedReason>>
attemptVars == <<items, i, files, movedFiles, spawned, started, err, outcome>>
execVars == <<lastPercent, filePath, calls, nchunks, exited>>
fsVars == <<tmpExists, tmpFiles, storage, ensuring>>
streamVars == <<sub, subState, snap, out, events>>
busVars == <<published, bus>>
routeVars == <<now, tokens, resp, added, post>>
poolVars == <<slot, pool, disk, effects>>
sideVars == <<limits, checked, text, client, sweep, requests>>
restVars == <<sideVars, updates>>

\* no output has been fixed
NoText == [set |-> FALSE, lines |-> <<>>, pos |-> 0, rest |-> <<>>]

\* ProgressList before its effect has run: controllersRef and
\* retryTimeoutsRef hold nothing for the job, no connection, nothing shown
NotMounted ==
    [held |-> FALSE, phase |-> "idle", retry |-> FALSE, status |-> "none",
     percent |-> 0, renders |-> 0]

\* rateLimitMaps holds no record
NoRecords == [name \in LimiterNames |-> [key \in ClientKeys |-> NoRecord]]
SideInit ==
    /\ text = NoText
    /\ client = NotMounted
    /\ updates = <<>>
    /\ sweep = "idle"
    /\ requests = EmptyBag
\* the worker runs no job, every job of the queue waits and tmp/ and
\* storage/ hold nothing
PoolIdle ==
    /\ slot = [s \in Slots |-> NoJob]
    /\ pool = [id \in PoolJobs |-> PoolJob("waiting", "none", 0, FALSE)]
    /\ disk = {}
    /\ effects = {}
RestInit ==
    /\ limits = NoRecords
    /\ checked = EmptyBag
    /\ SideInit
vars == <<jobVars, pc, attemptVars, procs, execVars, fsVars, deadLetter, streamVars,
          busVars, routeVars, poolVars, restVars>>

\* the stream's handlers are registered on the queue-events emitter and the
\* stream has not been cleaned up or cancelled (cleanedUp is false)
Listening == sub \in {"registered", "gotjob", "open"}

\* the handlers the stream has on the queue-events emitter: start() registers
\* three, cleanup() removes them with off() unless cleanedUp is already set,
\* and cancel() sets cleanedUp without removing any
RegisteredHandlers == IF sub \in {"none", "closed"} THEN 0 ELSE 3
\* the streams that are open to a client
OpenStreams == IF Listening THEN 1 ELSE 0

\* normalizeProgress
normalizeProgress(progressValue) ==
    IF progressValue.kind = "object"
    THEN [percent |-> progressValue.percent, videoIndex |-> progressValue.videoIndex]
    ELSE [percent |-> progressValue.percent, videoIndex |-> NoIndex]

Sent(type, prog, res, message) ==
    [type |-> type, percent |-> prog.percent, videoIndex |-> prog.videoIndex,
     result |-> res, message |-> message]
NoProgress == [percent |-> NoPercent, videoIndex |-> NoIndex]

\* failedReason || "Job failed"
ReasonOrDefault(reason) == IF reason = NoErr THEN Err("jobfailed", NoLabel) ELSE reason

\* what progressHandler / completedHandler / failedHandler send for an event
HandlerEvent(ev) ==
    IF ev.type = "progress"
    THEN Sent("progress", normalizeProgress(ev.progress), NoResult, NoErr)
    ELSE IF ev.type = "completed"
    THEN Sent("complete", NoProgress, ev.result, NoErr)
    ELSE Sent("error", NoProgress, NoResult, ReasonOrDefault(ev.reason))

\* mutant of Emit: completedHandler / failedHandler without cleanup()
EmitKeepsOpen(ev) ==
    IF ~Listening
    THEN UNCHANGED <<sub, out>>
    ELSE IF Len(out) >= MaxOut
    THEN sub' = "cancelled" /\ out' = out
    ELSE /\ out' = Append(out, HandlerEvent(ev))
         /\ sub' = sub

\* a queue event reaches the handlers that are registered when the
\* queue-events emitter of the web server emits it; a terminal event ends
\* the stream (cleanup).  A client that has read MaxOut events has
\* disconnected (cancel).
Emit(ev) ==
    IF ~Listening
    THEN UNCHANGED <<sub, out>>
    ELSE IF Len(out) >= MaxOut
    THEN sub' = "cancelled" /\ out' = out
    ELSE /\ out' = Append(out, HandlerEvent(ev))
         /\ sub' = IF ev.type = "progress" THEN sub ELSE "closed"

\* getDownloadQueueEvents has not been called: the web server reads no events
NoEvents == [consumer |-> FALSE, pending |-> <<>>]
\* the QueueEvents object exists and no event has been written
NoneInFlight == [consumer |-> TRUE, pending |-> <<>>]

\* the only stream of the web server has ended: cleanup() or cancel() has set
\* cleanedUp
Ended == sub \in {"closed", "cancelled"}

\* the queue writes an event of the job to its event stream with the change
\* it stores, and the QueueEvents object of the web server reads the stream
\* from the moment it is created.  pending holds the events written that it
\* has not emitted yet, oldest first.  A change of the job waits while
\* MaxEvents events are unread, or MaxUnread while a stream listens.  Once
\* the stream has ended sendEvent sends nothing, whatever is emitted, and
\* the events are followed no more.
CanPublish ==
    (events.consumer /\ ~Ended) =>
        Len(events.pending) < (IF Listening THEN MaxUnread ELSE MaxEvents)
Publish(ev) ==
    events' = IF ~events.consumer \/ Ended
              THEN events
              ELSE [events EXCEPT !.pending = Append(@, ev)]

\* once cleanup() or cancel() has set cleanedUp, sendEvent sends nothing: the
\* events not emitted yet change nothing and are followed no more
StillFollowed(rest) ==
    events' = [events EXCEPT !.pending = IF sub' \in {"closed", "cancelled"}
                                         THEN <<>> ELSE rest]

\* publishEvent: nothing is published while the publisher is not connected,
\* and an error of publisher.publish is caught and logged
PublishEvent(type) ==
    published' = IF bus = "ok" THEN Append(published, type) ELSE published

\* publishEvent lets no error escape to its caller
PublishRaisesOnFault(b) == b = "fail"
PublishRaises(b) == FALSE

\* wrappedProgress / playlistProgress: the data handed to trackProgress
\* videoIndex: the loop variable of downloadPlaylist counts from 0
VideoIndex(k) == k - 1
\* what the progress callback made for the item at position k of
\* itemsToDownload holds: the loop index, totalVideos and the item's id
\* (wrappedProgress of downloadVideo holds none of them)
Callback(k) ==
    IF job.name = "playlist"
    THEN [index |-> k, totalVideos |-> Len(items), videoId |-> ItemId(job, items[k])]
    ELSE [index |-> k, totalVideos |-> NoIndex, videoId |-> NoId]
\* the data a callback hands to trackProgress
RelayBy(cb, percent) ==
    IF job.name = "playlist"
    THEN [Progress(Min(PercentCap, percent), VideoIndex(cb.index)) EXCEPT
             !.totalVideos = cb.totalVideos, !.videoId = cb.videoId]
    ELSE Progress(Min(PercentCap, percent), NoIndex)
\* by the callback made for the item at position k of itemsToDownload
RelayOf(percent, k) == RelayBy(Callback(k), percent)
\* by the callback of the item being downloaded
Relay(percent) == RelayOf(percent, i)

JobInit(j) ==
    /\ job = j
    /\ state = "waiting"
    /\ attemptsMade = 0
    /\ runs = 0
    /\ progress = InitialProgress
    /\ returnvalue = NoResult
    /\ failedReason = NoErr
    /\ pc = "idle"
    /\ items = <<>>
    /\ i = 1
    /\ files = <<>>
    /\ movedFiles = <<>>
    /\ spawned = <<>>
    /\ started = FALSE
    /\ err = NoErr
    /\ outcome = "none"
    /\ procs = <<>>
    /\ lastPercent = 0
    /\ filePath = NoPath
    /\ calls = <<>>
    /\ nchunks = 0
    /\ exited = <<>>
    /\ ensuring = {}
    /\ tmpExists = FALSE
    /\ tmpFiles = {}
    /\ storage = {}
    /\ deadLetter = <<>>
    /\ sub = "none"
    /\ subState = "none"
    /\ snap = [progress |-> InitialProgress, returnvalue |-> NoResult,
               failedReason |-> NoErr]
    /\ out = <<>>
    /\ published = <<>>
    /\ now = 0
    /\ tokens = {}
    /\ resp = NoResp
    /\ added = <<>>
    /\ post = NoPost
\* the job as it was added, the web server reading no events of the queue
InitWith(j) == JobInit(j) /\ PoolIdle /\ RestInit /\ events = NoEvents
\* the same with a web server whose QueueEvents object exists, made for an
\* earlier stream
ServedInit(j) == JobInit(j) /\ PoolIdle /\ RestInit /\ events = NoneInFlight

\* the publisher is connected before the job is picked up
Init == \E j \in Jobs : InitWith(j) /\ bus = "ok"


(***************************************************************************)
(* Worker: processJob and the media operations                             *)
(***************************************************************************)
\* an exception propagates to the catch block of processJob
Throw(reason) ==
    /\ pc' = "catch"
    /\ err' = reason

\* trackProgress up to its first await: job.updateProgress(data) is issued.
\* The download callbacks do not await it; processVideoJob and
\* processPlaylistJob await their final one.
TrackProgress(data, awaited) ==
    updates' = Append(updates, [data |-> data, awaited |-> awaited])

\* an awaited trackProgress is still pending
AwaitingUpdate == \E n \in 1..Len(updates) : updates[n].awaited

\* the oldest pending job.updateProgress settles. When Redis applies it the
\* progress is stored on the job and the queue's progress event is written.
\* When it rejects nothing is stored: the awaited call of processVideoJob /
\* processPlaylistJob throws into the catch block of processJob, and the
\* rejection of a call made by a download callback, which nothing awaits, is
\* an unhandled rejection that ends the worker process.
UpdateProgress(ok) ==
    /\ updates # <<>>
    /\ pc # "crashed"
    /\ updates' = Tail(updates)
    /\ IF ok
       THEN /\ CanPublish
            /\ progress' = Head(updates).data
            /\ Publish(Ev("progress", Head(updates).data, NoResult, NoErr))
            /\ UNCHANGED <<pc, err>>
       ELSE /\ UNCHANGED <<progress, events>>
            /\ IF Head(updates).awaited
               THEN Throw(Err("update", NoLabel))
               ELSE pc' = "crashed" /\ err' = err
    /\ UNCHANGED <<job, state, attemptsMade, runs, returnvalue, failedReason>>
    /\ UNCHANGED <<items, i, files, movedFiles, spawned, started, outcome>>
    /\ UNCHANGED <<procs, execVars, fsVars, deadLetter>>
    /\ UNCHANGED <<sub, subState, snap, out, busVars, routeVars, poolVars, sideVars>>

\* the queue leases a waiting job to the worker, which calls processJob:
\* prepareFileSystem issues its two ensureDir calls and awaits both
Pickup ==
    /\ pc = "idle"
    /\ state = "waiting"
    /\ state' = "active"
    /\ runs' = runs + 1
    /\ pc' = "prepare"
    /\ ensuring' = ensuring \cup
                    {[dir |-> d, run |-> runs + 1] : d \in {"files", "temp"}}
    /\ UNCHANGED <<job, attemptsMade, progress, returnvalue, failedReason>>
    /\ UNCHANGED <<attemptVars, procs, execVars, deadLetter, streamVars>>
    /\ UNCHANGED <<tmpExists, tmpFiles, storage>>
    /\ UNCHANGED <<busVars, routeVars, poolVars, restVars>>

\* the backoff delay of a retried job elapses
BackoffElapsed ==
    /\ pc = "idle"
    /\ state = "delayed"
    /\ state' = "waiting"
    /\ UNCHANGED <<job, attemptsMade, runs, progress, returnvalue, failedReason>>
    /\ UNCHANGED <<pc, attemptVars, procs, execVars, fsVars, deadLetter, streamVars>>
    /\ UNCHANGED <<busVars, routeVars, poolVars, restVars>>

\* prepareFileSystem: await Promise.all([ensureDir(filesDir),
\* ensureDir(tempDir)]).  One of the ensureDir calls settles.
\* ensureDir(tempDir) creates tmp/<jobId> when it resolves.  While
\* processJob awaits the Promise.all of the call, the first rejection makes
\* processJob throw, before its try block and so past its catch and finally
\* blocks, and the last resolution lets it go on; a call that settles after
\* its processJob has thrown still has its effect on the file system.
PrepareFileSystem(call, ok) ==
    LET awaited == pc = "prepare" /\ call.run = runs
        left == {c \in ensuring \ {call} : c.run = call.run}
    IN  /\ call \in ensuring
        /\ ensuring' = ensuring \ {call}
        /\ tmpExists' = (tmpExists \/ (call.dir = "temp" /\ ok))
        /\ IF awaited /\ ~ok
           THEN /\ pc' = "settled"
                /\ err' = Err("prepare", NoLabel)
                /\ outcome' = "throw"
           ELSE IF awaited /\ left = {}
           THEN /\ pc' = "dispatch"
                /\ UNCHANGED <<err, outcome>>
           ELSE UNCHANGED <<pc, err, outcome>>
        /\ UNCHANGED <<jobVars, items, i, files, movedFiles, spawned, started>>
        /\ UNCHANGED <<procs, execVars, tmpFiles, storage>>
        /\ UNCHANGED <<deadLetter, streamVars>>
        /\ UNCHANGED <<busVars, routeVars, poolVars, restVars>>

\* both ensureDir calls of prepareFileSystem resolve, in either order
PrepareResolves == \E call \in ensuring : PrepareFileSystem(call, TRUE)

\* processJob: job.name === "video" -> downloadVideo up to executeDownload:
\* await ensureDirectory(resolvedDir), which is fs.ensureDir of tmp/<jobId>,
\* so the directory exists when it resolves; it throws when the directory
\* cannot be made
StartVideo(dirOk) ==
    /\ pc = "dispatch"
    /\ job.name = "video"
    /\ IF dirOk
       THEN /\ items' = <<0>>
            /\ i' = 1
            /\ pc' = "loop"
            /\ err' = err
            /\ tmpExists' = TRUE
       ELSE /\ Throw(Err("mkdir", NoLabel))
            /\ UNCHANGED <<items, i, tmpExists>>
    /\ UNCHANGED <<jobVars, files, movedFiles, spawned, started, outcome>>
    /\ UNCHANGED <<procs, execVars, tmpFiles, storage, ensuring>>
    /\ UNCHANGED <<deadLetter, streamVars>>
    /\ UNCHANGED <<busVars, routeVars, poolVars, restVars>>

\* the playlist folder under the output directory of the media operation
PlaylistDir == MkPath(<<"playlist">>, "dir")
\* ensureDirectory(playlistDir) is called only when itemsToDownload.length
\* is not 0
CreatesPlaylistDirAlways(itemsToDownload) == TRUE
CreatesPlaylistDir(itemsToDownload) == Len(itemsToDownload) > 0

\* processJob: job.name === "playlist" -> downloadPlaylist: await
\* fetchPlaylist settles; the selection is made and, unless it is empty,
\* ensureDirectory(playlistDir) is called
StartPlaylist(fetched) ==
    /\ pc = "dispatch"
    /\ job.name = "playlist"
    /\ LET itemsToDownload == ItemsToDownload(job.listing, job.sel)
       IN  IF ~fetched
           THEN /\ Throw(Err("fetch", NoLabel))
                /\ UNCHANGED <<items, i>>
           ELSE /\ items' = itemsToDownload
                /\ i' = 1
                /\ IF CreatesPlaylistDir(itemsToDownload)
                   THEN pc' = "mkdir" /\ err' = err
                   ELSE Throw(Err("empty", NoLabel))
    /\ UNCHANGED <<jobVars, files, movedFiles, spawned, started, outcome>>
    /\ UNCHANGED <<procs, execVars, fsVars, deadLetter, streamVars>>
    /\ UNCHANGED <<busVars, routeVars, poolVars, restVars>>

\* downloadPlaylist: await ensureDirectory(playlistDir) settles; fs.ensureDir
\* makes the playlist folder and every missing directory above it, tmp/<jobId>
\* included
ensureDirectory(dirOk) ==
    /\ pc = "mkdir"
    /\ IF dirOk
       THEN /\ tmpExists' = TRUE
            /\ tmpFiles' = tmpFiles \cup {PlaylistDir}
            /\ pc' = "loop"
            /\ err' = err
       ELSE /\ Throw(Err("mkdir", NoLabel))
            /\ UNCHANGED <<tmpExists, tmpFiles>>
    /\ UNCHANGED <<jobVars, items, i, files, movedFiles, spawned, started, outcome>>
    /\ UNCHANGED <<procs, execVars, storage, ensuring, deadLetter, streamVars>>
    /\ UNCHANGED <<busVars, routeVars, poolVars, restVars>>

\* processJob: throw new Error(`Unsupported job type`)
UnsupportedJob ==
    /\ pc = "dispatch"
    /\ job.name \notin {"video", "playlist"}
    /\ Throw(Err("unsupported", NoLabel))
    /\ UNCHANGED <<jobVars, items, i, files, movedFiles, spawned, started, outcome>>
    /\ UNCHANGED <<procs, execVars, fsVars, deadLetter, streamVars>>
    /\ UNCHANGED <<busVars, routeVars, poolVars, restVars>>

\* the catch blocks of downloadVideo and of the loop of downloadPlaylist wrap
\* the error; the playlist's message names the item
ItemError(kind) ==
    IF job.name = "playlist"
    THEN Err(kind, ItemLabel(job, items[i]))
    ELSE Err(kind, NoLabel)

\* the loop body is entered only when the previous item was awaited
SpawnReadyNoAwait == pc \in {"loop", "running"} /\ i <= Len(items)
SpawnReady == pc = "loop" /\ i <= Len(items)

\* executeDownload: execFile(YT_DLP_BIN, args) for the current item
Spawn ==
    /\ SpawnReady
    /\ procs' = Append(procs, Proc("yt-dlp", items[i]))
    /\ spawned' = Append(spawned, items[i])
    /\ lastPercent' = 0
    /\ filePath' = NoPath
    /\ calls' = <<>>
    /\ nchunks' = 0
    /\ pc' = "running"
    /\ UNCHANGED <<jobVars, items, i, files, movedFiles, started, err, outcome>>
    /\ UNCHANGED <<exited, fsVars, deadLetter, streamVars>>
    /\ UNCHANGED <<busVars, routeVars, poolVars, restVars>>

\* a file named by a Destination marker is being written under the temp dir
Written(chunk) ==
    {chunk[n].p : n \in {m \in 1..Len(chunk) : chunk[m].k = "dest"}}

\* effect of one 'data' event whose handler makes the callbacks cbs
OnDataStep(chunk, cbs) ==
    /\ pc = "running"
    /\ nchunks < (IF job = DirectCall THEN MaxExecChunks ELSE MaxChunks)
    /\ nchunks' = nchunks + 1
    /\ filePath' = NextFilePath(chunk, filePath)
    /\ lastPercent' = NextLastPercent(chunk, lastPercent)
    /\ tmpFiles' = IF tmpExists THEN tmpFiles \cup Written(chunk) ELSE tmpFiles
    /\ IF job = DirectCall
       THEN /\ calls' = calls \o cbs
            /\ UNCHANGED <<started, updates>>
       ELSE /\ calls' = calls
            /\ IF Len(cbs) > 0
               THEN /\ Len(updates) < MaxPending
                    /\ started' = TRUE
                    /\ TrackProgress(Relay(cbs[1]), FALSE)
               ELSE UNCHANGED <<started, updates>>
    /\ UNCHANGED <<jobVars, pc, items, i, files, movedFiles, spawned, err, outcome>>
    /\ UNCHANGED <<procs, exited, tmpExists, storage, ensuring, deadLetter, streamVars>>
    /\ UNCHANGED <<busVars, routeVars, poolVars>>

OnData(chunk, cbs) == OnDataStep(chunk, cbs) /\ UNCHANGED sideVars

\* child.stdout.on("data")
StdoutData(chunk) == OnData(chunk, StdoutCalls(chunk, lastPercent))

\* child.stderr.on("data")
StderrData(chunk) == OnData(chunk, StderrCalls(chunk, lastPercent))

\* the media operation has the final path of the current item; downloadVideo
\* calls onProgress(100) when no callback was made, and returns
ItemDone(finalPath) ==
    /\ files' = Append(files, finalPath)
    /\ err' = err
    /\ IF job.name = "video"
       THEN /\ i' = i
            /\ pc' = "finalize"
            /\ IF ~started
               THEN TrackProgress(Progress(PercentCap, NoIndex), FALSE)
               ELSE UNCHANGED updates
       ELSE /\ i' = i + 1
            /\ pc' = IF i + 1 > Len(items) THEN "finalize" ELSE "loop"
            /\ UNCHANGED updates

\* how executeDownload settles: rejected ("download", "nopath") or resolved
ExecResultPathWins(code, path) ==
    IF path # NoPath THEN "ok"
    ELSE IF code # 0 THEN "download"
    ELSE "nopath"
ExecResult(code, path) ==
    IF code # 0 THEN "download"
    ELSE IF path = NoPath THEN "nopath"
    ELSE "ok"

\* what the 'data' handlers of an executeDownload call keep after the call
\* has settled: their progress callback, lastPercent and the number of
\* chunks they have handled, with the processJob call they belong to
Closure(k, last, n) ==
    [index |-> k, callback |-> Callback(k), lastPercent |-> last, chunks |-> n,
     run |-> runs]

\* child.on("exit") / child.on("error"), then the continuation of the caller.
\* pending: the stdio streams of the child still hold output when it exits,
\* so that its 'data' handlers will run again.
ChildExit(code, pending) ==
    /\ pc = "running"
    /\ exited' = IF job = DirectCall \/ ~pending THEN exited
                 ELSE Append(exited, Closure(i, lastPercent, nchunks))
    /\ IF job = DirectCall
       THEN /\ pc' = "returned"
            /\ err' = Err(ExecResult(code, filePath), NoLabel)
            /\ files' = IF ExecResult(code, filePath) = "ok"
                        THEN <<filePath>> ELSE files
            /\ procs' = RemoveOne(procs, Proc("yt-dlp", items[i]))
            /\ UNCHANGED <<i, updates>>
       ELSE IF ExecResult(code, filePath) # "ok"
       THEN /\ Throw(ItemError(ExecResult(code, filePath)))
            /\ procs' = RemoveOne(procs, Proc("yt-dlp", items[i]))
            /\ UNCHANGED <<files, i, updates>>
       ELSE IF TargetFormat(job) = "mp3"
       THEN /\ pc' = "converting"
            /\ procs' = Append(RemoveOne(procs, Proc("yt-dlp", items[i])),
                               Proc("ffmpeg", items[i]))
            /\ UNCHANGED <<files, i, err, updates>>
       ELSE /\ ItemDone(filePath)
            /\ procs' = RemoveOne(procs, Proc("yt-dlp", items[i]))
    /\ UNCHANGED <<jobVars, items, movedFiles, spawned, started, outcome>>
    /\ UNCHANGED <<lastPercent, filePath, calls, nchunks>>
    /\ UNCHANGED <<fsVars, deadLetter, streamVars>>
    /\ UNCHANGED <<busVars, routeVars, poolVars, sideVars>>

\* the child exits when all of its output has been read
ProcExit(code) == ChildExit(code, FALSE)

\* convertToMp3: ffmpeg emits 'end', with the .mp3 written, or 'error'
ConvertEnd(ok) ==
    /\ pc = "converting"
    /\ procs' = RemoveOne(procs, Proc("ffmpeg", items[i]))
    /\ IF ~ok
       THEN /\ Throw(ItemError("convert"))
            /\ UNCHANGED tmpFiles
       ELSE /\ tmpFiles' = IF tmpExists
                           THEN tmpFiles \cup {ConvertedPath(filePath)}
                           ELSE tmpFiles
            /\ pc' = "removing"
            /\ err' = err
    /\ UNCHANGED <<jobVars, items, i, files, movedFiles, spawned, started, outcome>>
    /\ UNCHANGED <<execVars, tmpExists, storage, ensuring, deadLetter, streamVars>>
    /\ UNCHANGED <<busVars, routeVars, poolVars, restVars>>

\* convertToMp3: await fs.remove(inputPath).catch(() => {}), then the
\* continuation of the caller
RemoveInput(removed) ==
    /\ pc = "removing"
    /\ tmpFiles' = tmpFiles \ (IF removed THEN {filePath} ELSE {})
    /\ ItemDone(ConvertedPath(filePath))
    /\ UNCHANGED <<jobVars, items, movedFiles, spawned, started, outcome>>
    /\ UNCHANGED <<procs, execVars, tmpExists, storage, ensuring, deadLetter, streamVars>>
    /\ UNCHANGED <<busVars, routeVars, poolVars, sideVars>>


\* finalizeFiles is called with the result of the media operation, that is
\* after downloadVideo / downloadPlaylist has returned
MoveReadyEarly == pc \in {"loop", "finalize"}
MoveReady == pc = "finalize"

\* mutant of MoveFile: a failed fs.move is not noticed
MoveFileNoThrow(ok) ==
    /\ MoveReady
    /\ Len(movedFiles) < Len(files)
    /\ LET originalPath == files[Len(movedFiles) + 1]
       IN  /\ tmpFiles' = tmpFiles \ {originalPath}
           /\ storage' = IF ok /\ originalPath \in tmpFiles
                         THEN storage \cup {originalPath} ELSE storage
           /\ movedFiles' = Append(movedFiles, originalPath)
           /\ UNCHANGED <<pc, err>>
    /\ UNCHANGED <<jobVars, items, i, files, spawned, started, outcome>>
    /\ UNCHANGED <<procs, execVars, tmpExists, ensuring, deadLetter, streamVars>>
    /\ UNCHANGED <<busVars, routeVars, poolVars, restVars>>

\* finalizeFiles: fs.move of the next path of the result into filesDir
MoveFile(ok) ==
    /\ MoveReady
    /\ Len(movedFiles) < Len(files)
    /\ LET originalPath == files[Len(movedFiles) + 1]
       IN  IF ok /\ originalPath \in tmpFiles
           THEN /\ tmpFiles' = tmpFiles \ {originalPath}
                /\ storage' = storage \cup {originalPath}
                /\ movedFiles' = Append(movedFiles, originalPath)
                /\ UNCHANGED <<pc, err>>
           ELSE /\ Throw(Err("move", NoLabel))
                /\ UNCHANGED <<tmpFiles, storage, movedFiles>>
    /\ UNCHANGED <<jobVars, items, i, files, spawned, started, outcome>>
    /\ UNCHANGED <<procs, execVars, tmpExists, ensuring, deadLetter, streamVars>>
    /\ UNCHANGED <<busVars, routeVars, poolVars, restVars>>

\* processVideoJob / processPlaylistJob after finalizeFiles: the final
\* trackProgress is called and awaited
FinalProgress ==
    /\ pc = "finalize"
    /\ Len(movedFiles) = Len(files)
    /\ TrackProgress(Progress(PercentCap, NoIndex), TRUE)
    /\ pc' = "tracking"
    /\ UNCHANGED <<jobVars, attemptVars, procs, execVars, fsVars, deadLetter>>
    /\ UNCHANGED <<streamVars, busVars, routeVars, poolVars, sideVars>>

\* the final update is stored: buildFileMeta signs a token for every moved
\* file, which throws when DOWNLOAD_TOKEN_SECRET is not set, and the result
\* is returned to processJob
BuildFileMeta(secret) ==
    /\ pc = "tracking"
    /\ ~AwaitingUpdate
    /\ IF secret
       THEN pc' = "publish" /\ err' = err
       ELSE Throw(Err("token", NoLabel))
    /\ UNCHANGED <<jobVars, items, i, files, movedFiles, spawned, started, outcome>>
    /\ UNCHANGED <<procs, execVars, fsVars, deadLetter, streamVars>>
    /\ UNCHANGED <<busVars, routeVars, poolVars, restVars>>

\* processJob: await publishEvent("completed", ...); return result
PublishCompleted ==
    /\ pc = "publish"
    /\ IF PublishRaises(bus)
       THEN /\ Throw(Err("publish", NoLabel))
            /\ UNCHANGED <<outcome, published>>
       ELSE /\ PublishEvent("completed")
            /\ outcome' = "return"
            /\ pc' = "finally"
            /\ err' = err
    /\ UNCHANGED <<jobVars, items, i, files, movedFiles, spawned, started>>
    /\ UNCHANGED <<procs, execVars, fsVars, deadLetter, streamVars>>
    /\ UNCHANGED <<bus, routeVars, poolVars, restVars>>

\* processJob: catch (error) { publishEvent("error"); throw error }
Catch ==
    /\ pc = "catch"
    /\ PublishEvent("error")
    /\ outcome' = "throw"
    /\ pc' = "finally"
    /\ UNCHANGED <<jobVars, items, i, files, movedFiles, spawned, started, err>>
    /\ UNCHANGED <<procs, execVars, fsVars, deadLetter, streamVars>>
    /\ UNCHANGED <<bus, routeVars, poolVars, restVars>>

\* processJob: finally { await fs.remove(tempDir).catch(() => {}) }: a
\* removal that fails is ignored and leaves the directory
Finally(removed) ==
    /\ pc = "finally"
    /\ tmpExists' = (tmpExists /\ ~removed)
    /\ tmpFiles' = IF removed THEN {} ELSE tmpFiles
    /\ pc' = "settled"
    /\ UNCHANGED <<jobVars, attemptVars, procs, execVars, storage, ensuring>>
    /\ UNCHANGED <<deadLetter, streamVars>>
    /\ UNCHANGED <<busVars, routeVars, poolVars, restVars>>

\* the locals of a settled processJob call are gone; the 'data' handlers of
\* its subprocesses stay attached
ResetLocals ==
    /\ items' = <<>>
    /\ i' = 1
    /\ files' = <<>>
    /\ movedFiles' = <<>>
    /\ spawned' = <<>>
    /\ started' = FALSE
    /\ outcome' = "none"
    /\ lastPercent' = 0
    /\ filePath' = NoPath
    /\ calls' = <<>>
    /\ nchunks' = 0
    /\ exited' = exited

\* the queue stores the value processJob returned and completes the job;
\* the command follows the pending updates on the worker's connection
MoveToCompleted ==
    /\ pc = "settled"
    /\ outcome = "return"
    /\ updates = <<>>
    /\ CanPublish
    /\ state' = "completed"
    /\ returnvalue' = Result(movedFiles)
    /\ Publish(Ev("completed", progress, Result(movedFiles), NoErr))
    /\ pc' = "idle"
    /\ ResetLocals
    /\ err' = NoErr
    /\ UNCHANGED <<job, attemptsMade, runs, progress, failedReason>>
    /\ UNCHANGED <<procs, fsVars, deadLetter>>
    /\ UNCHANGED <<sub, subState, snap, out>>
    /\ UNCHANGED <<busVars, routeVars, poolVars, restVars>>

\* the retry budget: attempts made so far against the configured attempts
RetriesLeft(made) == made < job.attempts

\* processJob threw: the queue counts the attempt and either delays the job
\* for a retry or fails it, writing its failed event; the worker then
\* emits its own 'failed' event
MoveToFailed ==
    /\ pc = "settled"
    /\ outcome = "throw"
    /\ updates = <<>>
    /\ attemptsMade' = attemptsMade + 1
    /\ failedReason' = err
    /\ IF RetriesLeft(attemptsMade + 1)
       THEN /\ state' = "delayed"
            /\ UNCHANGED events
       ELSE /\ CanPublish
            /\ state' = "failed"
            /\ Publish(Ev("failed", progress, NoResult, err))
    /\ pc' = "onfailed"
    /\ ResetLocals
    /\ err' = err
    /\ UNCHANGED <<job, runs, progress, returnvalue>>
    /\ UNCHANGED <<procs, fsVars, deadLetter>>
    /\ UNCHANGED <<sub, subState, snap, out>>
    /\ UNCHANGED <<busVars, routeVars, poolVars, restVars>>

\* worker.on("failed"): await failedDownloadQueue.add(...); when the add
\* rejects, the promise of the async listener rejects, which nothing
\* handles: the unhandled rejection ends the worker process
OnFailed(queued) ==
    /\ pc = "onfailed"
    /\ IF queued
       THEN /\ deadLetter' = Append(deadLetter,
                                    [data |-> job, attemptsMade |-> attemptsMade,
                                     error |-> err])
            /\ pc' = "onfailedpublish"
            /\ err' = err
       ELSE /\ deadLetter' = deadLetter
            /\ pc' = "crashed"
            /\ err' = err
    /\ UNCHANGED <<jobVars, items, i, files, movedFiles, spawned, started, outcome>>
    /\ UNCHANGED <<procs, execVars, fsVars, streamVars>>
    /\ UNCHANGED <<busVars, routeVars, poolVars, restVars>>

\* worker.on("failed"): await publishEvent("error", ...)
OnFailedPublish ==
    /\ pc = "onfailedpublish"
    /\ PublishEvent("error")
    /\ pc' = "idle"
    /\ err' = NoErr
    /\ UNCHANGED <<jobVars, items, i, files, movedFiles, spawned, started, outcome>>
    /\ UNCHANGED <<procs, execVars, fsVars, deadLetter, streamVars>>
    /\ UNCHANGED <<bus, routeVars, poolVars, restVars>>

\* one 'data' event of the running subprocess of a job
JobData ==
    /\ pc = "running"
    /\ \E c \in JobChunks(job, items[i]) : StdoutData(c) \/ StderrData(c)

\* the steps every attempt shares, on a file system and a Redis that answer;
\* the media operation and the moves can fail
AttemptSteps ==
    \/ Pickup
    \/ PrepareResolves
    \/ Spawn
    \/ JobData
    \/ \E code \in ExitCodes : ProcExit(code)
    \/ \E ok \in BOOLEAN : MoveFile(ok)
    \/ FinalProgress
    \/ UpdateProgress(TRUE)
    \/ BuildFileMeta(TRUE)
    \/ PublishCompleted
    \/ Catch
    \/ Finally(TRUE)
    \/ MoveToCompleted
    \/ MoveToFailed
    \/ OnFailed(TRUE)
    \/ OnFailedPublish

\* the calls of the attempt into the file system, ytpl, Redis, the token
\* module and the failed queue fail
Faults ==
    \/ \E call \in ensuring : PrepareFileSystem(call, FALSE)
    \/ StartVideo(FALSE)
    \/ StartPlaylist(FALSE)
    \/ ensureDirectory(FALSE)
    \/ UpdateProgress(FALSE)
    \/ BuildFileMeta(FALSE)
    \/ Finally(FALSE)
    \/ OnFailed(FALSE)

WorkerNext ==
    \/ AttemptSteps
    \/ BackoffElapsed
    \/ StartVideo(TRUE)
    \/ StartPlaylist(TRUE)
    \/ ensureDirectory(TRUE)
    \/ UnsupportedJob
    \/ ConvertEnd(TRUE)
    \/ ConvertEnd(FALSE)
    \/ \E removed \in BOOLEAN : RemoveInput(removed)
    \/ Finally(FALSE)

Next == WorkerNext

Spec == Init /\ [][Next]_vars


(***************************************************************************)
(* executeDownload called on its own: one subprocess, a recording callback *)
(***************************************************************************)
ExecInit ==
    /\ job = DirectCall
    /\ state = "active"
    /\ attemptsMade = 0
    /\ runs = 1
    /\ progress = InitialProgress
    /\ returnvalue = NoResult
    /\ failedReason = NoErr
    /\ pc = "running"
    /\ items = <<0>>
    /\ i = 1
    /\ files = <<>>
    /\ movedFiles = <<>>
    /\ spawned = <<0>>
    /\ started = FALSE
    /\ err = NoErr
    /\ outcome = "none"
    /\ procs = <<Proc("yt-dlp", 0)>>
    /\ lastPercent = 0
    /\ filePath = NoPath
    /\ calls = <<>>
    /\ nchunks = 0
    /\ exited = <<>>
    /\ ensuring = {}
    /\ tmpExists = TRUE
    /\ tmpFiles = {}
    /\ storage = {}
    /\ deadLetter = <<>>
    /\ sub = "none"
    /\ subState = "none"
    /\ snap = [progress |-> InitialProgress, returnvalue |-> NoResult,
               failedReason |-> NoErr]
    /\ out = <<>>
    /\ published = <<>>
    /\ bus = "ok"
    /\ now = 0
    /\ tokens = {}
    /\ resp = NoResp
    /\ added = <<>>
    /\ post = NoPost
    /\ PoolIdle
    /\ events = NoEvents
    /\ RestInit

ExecNext ==
    \/ \E c \in ExecChunks : StdoutData(c)
    \/ \E c \in ExecChunks : StderrData(c)
    \/ \E code \in ExitCodes : ProcExit(code)

SpecExec == ExecInit /\ [][ExecNext]_vars

(***************************************************************************)
(* The event stream of one client: GET /api/jobs/[id]/events               *)
(***************************************************************************)
NoSnap ==
    [progress |-> InitialProgress, returnvalue |-> NoResult, failedReason |-> NoErr]

\* start(): the three handlers are registered before the job is read;
\* downloadQueueEvents.on creates the QueueEvents object when there is none.
\* The events an existing QueueEvents object has not emitted yet are emitted
\* to the handlers of this stream.
Subscribe ==
    /\ sub = "none"
    /\ sub' = "registered"
    /\ subState' = state
    /\ events' = [events EXCEPT !.consumer = TRUE]
    /\ UNCHANGED <<jobVars, pc, attemptVars, procs, execVars, fsVars, deadLetter>>
    /\ UNCHANGED <<snap, out>>
    /\ UNCHANGED <<busVars, routeVars, poolVars, restVars>>

\* the QueueEvents object reads the oldest unread event of the queue's event
\* stream and emits it: to the handlers of the stream, or to nobody while
\* no handler is registered
Deliver ==
    /\ events.pending # <<>>
    /\ Emit(Head(events.pending))
    /\ StillFollowed(Tail(events.pending))
    /\ UNCHANGED <<jobVars, pc, attemptVars, procs, execVars, fsVars, deadLetter>>
    /\ UNCHANGED <<subState, snap>>
    /\ UNCHANGED <<busVars, routeVars, poolVars, restVars>>

\* the outcomes of downloadQueue.getJob(id): the job, nothing (the job was
\* removed: removeOnComplete keeps a completed job for 3600 s), or a rejection
GetJobOutcomes == {"job", "missing", "rejects"}

\* what start() sends when it cannot read the job
InitError(kind) == Sent("error", NoProgress, NoResult, Err(kind, NoLabel))

\* sendEvent followed by cleanup() in start(); a client that has read MaxOut
\* events has disconnected (cancel)
SendAndCleanup(ev) ==
    IF Len(out) >= MaxOut
    THEN sub' = "cancelled" /\ out' = out
    ELSE out' = Append(out, ev) /\ sub' = "closed"

\* const job = await downloadQueue.getJob(id); if (!job) 'Job not found';
\* catch: 'Unable to load job progress'
GetJob(res) ==
    /\ sub = "registered"
    /\ res = "missing" => state = "completed"
    /\ IF res = "job"
       THEN /\ snap' = [progress |-> progress, returnvalue |-> returnvalue,
                        failedReason |-> failedReason]
            /\ sub' = "gotjob"
            /\ out' = out
       ELSE /\ snap' = NoSnap
            /\ SendAndCleanup(InitError(IF res = "missing" THEN "notfound"
                                                           ELSE "unable"))
    /\ StillFollowed(events.pending)
    /\ UNCHANGED <<jobVars, pc, attemptVars, procs, execVars, fsVars, deadLetter>>
    /\ UNCHANGED subState
    /\ UNCHANGED <<busVars, routeVars, poolVars, restVars>>

\* the event the initial snapshot sends for the state job.getState() returned
SnapshotEvent(st) ==
    IF st = "completed"
    THEN Sent("complete", NoProgress, snap.returnvalue, NoErr)
    ELSE IF st = "failed"
    THEN Sent("error", NoProgress, NoResult, ReasonOrDefault(snap.failedReason))
    ELSE Sent("progress", normalizeProgress(snap.progress), NoResult, NoErr)

\* const state = await job.getState(), then the initial event; a rejection
\* is caught: 'Unable to load job progress'
GetState(ok) ==
    /\ sub = "gotjob"
    /\ IF ~ok
       THEN SendAndCleanup(InitError("unable"))
       ELSE IF Len(out) >= MaxOut
       THEN sub' = "cancelled" /\ out' = out
       ELSE /\ out' = Append(out, SnapshotEvent(state))
            /\ sub' = IF SnapshotEvent(state).type \in {"complete", "error"}
                      THEN "closed" ELSE "open"
    /\ snap' = NoSnap
    /\ StillFollowed(events.pending)
    /\ UNCHANGED <<jobVars, pc, attemptVars, procs, execVars, fsVars, deadLetter>>
    /\ UNCHANGED subState
    /\ UNCHANGED <<busVars, routeVars, poolVars, restVars>>

\* the heartbeat interval fires: sendEvent({type: "heartbeat"}).  The
\* interval is set at the top of start(), before the job is read, and
\* sendEvent only tests cleanedUp; cleanup() and cancel() clear the interval.
Heartbeat ==
    /\ Listening
    /\ Len(out) < MaxOut
    /\ Len(SelectSeq(out, LAMBDA e : e.type = "heartbeat")) < MaxHeartbeats
    /\ out' = Append(out, Sent("heartbeat", NoProgress, NoResult, NoErr))
    /\ UNCHANGED <<jobVars, pc, attemptVars, procs, execVars, fsVars, deadLetter>>
    /\ UNCHANGED <<sub, subState, snap, events>>
    /\ UNCHANGED <<busVars, routeVars, poolVars, restVars>>

\* cancel(): the client disconnects
Cancel ==
    /\ Listening
    /\ sub' = "cancelled"
    /\ snap' = NoSnap
    /\ StillFollowed(events.pending)
    /\ UNCHANGED <<jobVars, pc, attemptVars, procs, execVars, fsVars, deadLetter>>
    /\ UNCHANGED <<subState, out>>
    /\ UNCHANGED <<busVars, routeVars, poolVars, restVars>>

\* a video job retried once, and a two-item playlist job that is not retried
\* (JOB_ATTEMPTS configures the attempts of the jobs a deployment adds)
StreamJobs ==
    {[name |-> "video", format |-> "mp4", listing |-> <<>>, sel |-> <<>>,
      attempts |-> 2],
     [name |-> "playlist", format |-> "mp4", listing |-> SubSeq(Ids, 1, 2),
      sel |-> <<>>, attempts |-> 1]}

\* the worker when its calls into the file system, ytpl, the token module
\* and the failed queue can fail as well
FaultyInit == \E j \in StreamJobs : InitWith(j) /\ bus = "ok"

FaultyNext ==
    \/ AttemptSteps
    \/ BackoffElapsed
    \/ StartVideo(TRUE)
    \/ StartPlaylist(TRUE)
    \/ ensureDirectory(TRUE)
    \/ Faults

SpecFaults == FaultyInit /\ [][FaultyNext]_vars

StreamInit == \E j \in StreamJobs : ServedInit(j) /\ bus = "ok"

StreamNext ==
    \/ AttemptSteps
    \/ BackoffElapsed
    \/ StartVideo(TRUE)
    \/ StartPlaylist(TRUE)
    \/ ensureDirectory(TRUE)
    \/ Subscribe
    \/ Deliver
    \/ \E res \in GetJobOutcomes : GetJob(res)
    \/ \E ok \in BOOLEAN : GetState(ok)
    \/ Heartbeat
    \/ Cancel

SpecStream == StreamInit /\ [][StreamNext]_vars


(***************************************************************************)
(* The client stream while other jobs of the queue publish events          *)
(***************************************************************************)
\* the id the stream was opened for
ThisJob == "1"
\* the handlers' filter: `${jobId}` !== `${id}` returns
SameJobAny(jobId, id) == TRUE
SameJob(jobId, id) == jobId = id

\* the queue-events emitter delivers an event of job jobId to the handlers
Handle(jobId, ev) ==
    IF SameJob(jobId, ThisJob) THEN Emit(ev) ELSE UNCHANGED <<sub, out>>

\* another job of the queue reports progress, completes or fails
OtherJobEvent(id, type) ==
    /\ id # ThisJob
    /\ pool[id].st = (IF type = "progress" THEN "waiting" ELSE "active")
    /\ pool' = [pool EXCEPT ![id].st =
                   IF type = "progress" THEN "active" ELSE type]
    /\ Handle(id, Ev(type,
                     IF type = "progress" THEN Progress(50, NoIndex) ELSE NoProgress,
                     IF type = "completed" THEN Result(<<>>) ELSE NoResult,
                     IF type = "failed" THEN Err("download", NoLabel) ELSE NoErr))
    /\ StillFollowed(events.pending)
    /\ UNCHANGED <<jobVars, pc, attemptVars, procs, execVars, fsVars, deadLetter>>
    /\ UNCHANGED <<subState, snap>>
    /\ UNCHANGED <<busVars, routeVars, slot, disk, effects, restVars>>

\* the stream's job is a video job that is not retried
FilterInit ==
    /\ ServedInit([name |-> "video", format |-> "mp4", listing |-> <<>>,
                 sel |-> <<>>, attempts |-> 1])
    /\ bus = "ok"

FilterNext ==
    \/ AttemptSteps
    \/ StartVideo(TRUE)
    \/ Subscribe
    \/ Deliver
    \/ \E res \in GetJobOutcomes : GetJob(res)
    \/ \E ok \in BOOLEAN : GetState(ok)
    \/ Heartbeat
    \/ Cancel
    \/ \E id \in PoolJobs, type \in {"progress", "completed", "failed"} :
          OtherJobEvent(id, type)

SpecFilter == FilterInit /\ [][FilterNext]_vars

(***************************************************************************)
(* The worker with a publisher that connects late and whose publish calls  *)
(* can fail                                                                *)
(***************************************************************************)
\* publisher.connect().then(() => { publisherReady = true })
PublisherConnected ==
    /\ bus = "notready"
    /\ bus' = "ok"
    /\ UNCHANGED <<jobVars, pc, attemptVars, procs, execVars, fsVars, deadLetter>>
    /\ UNCHANGED <<streamVars, published, routeVars, poolVars, restVars>>

\* publisher.publish starts or stops failing
BusFault ==
    /\ bus \in {"ok", "fail"}
    /\ bus' = IF bus = "ok" THEN "fail" ELSE "ok"
    /\ UNCHANGED <<jobVars, pc, attemptVars, procs, execVars, fsVars, deadLetter>>
    /\ UNCHANGED <<streamVars, published, routeVars, poolVars, restVars>>

\* the worker starts with publisherReady = false
BusInit == \E j \in StreamJobs : InitWith(j) /\ bus = "notready"

BusNext ==
    \/ AttemptSteps
    \/ BackoffElapsed
    \/ StartVideo(TRUE)
    \/ StartPlaylist(TRUE)
    \/ ensureDirectory(TRUE)
    \/ PublisherConnected
    \/ BusFault

SpecBus == BusInit /\ [][BusNext]_vars

(***************************************************************************)
(* The worker and the storage cleanup script                               *)
(***************************************************************************)
\* run() of the cleanup script, once while the job is observed: it calls
\* cleanupDirectory for storage/ and, when that has returned, for tmp/.
\* cleanupDirectory removes an entry of its root whose mtime is older than
\* the TTL (isExpired); the script knows nothing of the queue, so the entry
\* of a job is removed whatever the job is doing.  STORAGE_TTL_HOURS is
\* configured, so whether the entry has expired is an input.
cleanupDirectory(root, expired) ==
    /\ sweep = (IF root = "storage" THEN "idle" ELSE "tmp")
    /\ sweep' = (IF root = "storage" THEN "tmp" ELSE "done")
    /\ IF root = "storage"
       THEN /\ storage' = IF expired THEN {} ELSE storage
            /\ UNCHANGED <<tmpExists, tmpFiles>>
       ELSE /\ tmpExists' = (tmpExists /\ ~expired)
            /\ tmpFiles' = IF expired THEN {} ELSE tmpFiles
            /\ UNCHANGED storage
    /\ UNCHANGED ensuring
    /\ UNCHANGED <<jobVars, pc, attemptVars, procs, execVars, deadLetter, streamVars>>
    /\ UNCHANGED <<busVars, routeVars, poolVars, updates>>
    /\ UNCHANGED <<limits, checked, text, client, requests>>

RetentionInit == \E j \in StreamJobs : InitWith(j) /\ bus = "ok"

RetentionNext ==
    \/ AttemptSteps
    \/ BackoffElapsed
    \/ StartVideo(TRUE)
    \/ StartPlaylist(TRUE)
    \/ ensureDirectory(TRUE)
    \/ Finally(FALSE)
    \/ \E root \in {"storage", "tmp"}, expired \in BOOLEAN :
          cleanupDirectory(root, expired)

SpecRetention == RetentionInit /\ [][RetentionNext]_vars

(***************************************************************************)
(* The file route: GET /api/files/[jobId]/[file]                           *)
(***************************************************************************)
workerVars ==
    <<jobVars, pc, attemptVars, procs, execVars, fsVars, deadLetter, streamVars,
      busVars>>

\* time passes
Tick ==
    /\ now < MaxNow
    /\ now' = now + 1
    /\ UNCHANGED <<workerVars, poolVars, restVars, tokens, resp, added, post>>

\* buildFileMeta: the worker signs a token for a file it moved to storage,
\* before the job is marked completed
SignToken(jobId, fileName) ==
    /\ Cardinality(tokens) < MaxTokens
    /\ HasJob(jobId)
    /\ GetStoredJob(jobId).state \in {"active", "completed"}
    /\ fileName \in GetStoredJob(jobId).files
    /\ tokens' = tokens \cup
          {[jobId |-> jobId, fileName |-> fileName,
            token |-> signDownloadToken(jobId, fileName, now)]}
    /\ UNCHANGED <<workerVars, poolVars, restVars, now, resp, added, post>>

\* the tokens a client can present: none, a signed token, or a signed
\* token whose expiry field was rewritten to a later time
PresentedTokens ==
    {NoToken} \cup {t.token : t \in tokens} \cup
    {Token(t.token.exp + 1, t.token.sig) : t \in tokens}

\* one request to the file route; requests are answered one at a time.  The
\* size of the directory is the file system's to choose and is looked at
\* for a request whose file name resolves to the directory.
Request(jobId, file, token, range, queueOk) ==
    /\ resp = NoResp
    /\ \E dirSize \in (IF StatsDirectory(jobId, file, token, now, queueOk)
                        THEN DirSizes ELSE {0}) :
          resp' = Response("file", jobId, file, token, range, now, queueOk,
                           dirSize,
                           FileRoute(jobId, file, token, range, now, queueOk,
                                     dirSize))
    /\ UNCHANGED <<workerVars, poolVars, restVars, now, tokens, added, post>>

\* one request to the zip route
ZipRequest(jobId, token, queueOk) ==
    /\ resp = NoResp
    /\ resp' = Response("zip", jobId, <<>>, token, NoRange, now, queueOk, 0,
                        ZipRoute(jobId, token, now, queueOk))
    /\ UNCHANGED <<workerVars, poolVars, restVars, now, tokens, added, post>>

\* the response has been delivered to the client
Delivered ==
    /\ resp # NoResp
    /\ resp' = NoResp
    /\ UNCHANGED <<workerVars, poolVars, restVars, now, tokens, added, post>>

FilesInit == InitWith(CHOOSE j \in VideoJobs : j.format = "mp4") /\ bus = "ok"

FilesNext ==
    \/ Tick
    \/ \E j \in StoredJobs : \E f \in j.files : SignToken(j.id, f)
    \/ \E jobId \in RequestJobIds, file \in RequestFiles,
          token \in PresentedTokens, queueOk \in BOOLEAN :
          Request(jobId, file, token, NoRange, queueOk)
    \/ \E jobId \in RequestJobIds, token \in PresentedTokens, queueOk \in BOOLEAN :
          ZipRequest(jobId, token, queueOk)
    \/ Delivered

SpecFiles == FilesInit /\ [][FilesNext]_vars

(***************************************************************************)
(* The file route under Range requests, with the tokens as they were       *)
(* signed                                                                  *)
(***************************************************************************)
RangeNext ==
    \/ \E j \in StoredJobs : \E f \in j.files : SignToken(j.id, f)
    \/ \E jobId \in RequestJobIds, file \in RequestFiles,
          token \in {NoToken} \cup {t.token : t \in tokens},
          range \in RequestRanges, queueOk \in BOOLEAN :
          Request(jobId, file, token, range, queueOk)
    \/ Delivered

SpecRange == FilesInit /\ [][RangeNext]_vars

(***************************************************************************)
(* The download routes and the job route                                   *)
(***************************************************************************)
\* POST /api/download/video or /api/download/playlist, served by one of
\* the handlers that count no requests (LimitedDownload and LimitedAnswer
\* are the rate-limited ones)
Download(route, handler, headerKey, envKey, url, queueUp) ==
    LET answer == DownloadRoute(handler, headerKey, envKey,
                                [allowed |-> TRUE], url, queueUp)
    IN  /\ handler \in {"checked", "keyed"}
        /\ Len(added) < MaxAdds
        /\ post' = Post(route, url, <<>>, headerKey, envKey, answer.status)
        /\ added' = IF answer.added
                    THEN Append(added, [name |-> route, url |-> url])
                    ELSE added
        /\ UNCHANGED <<workerVars, poolVars, restVars, now, tokens, resp>>

\* GET /api/jobs/[id]
GetJobStatus(id, headerKey, envKey, queueOk) ==
    /\ post' = Post("job", Url("undefined", FALSE, "", <<>>), id, headerKey, envKey,
                    JobRoute(id, headerKey, envKey, queueOk))
    /\ UNCHANGED <<workerVars, poolVars, restVars, now, tokens, resp, added>>

(***************************************************************************)
(* One worker processing several jobs                                      *)
(***************************************************************************)
otherVars ==
    <<jobVars, pc, attemptVars, procs, execVars, fsVars, deadLetter, streamVars,
      busVars, routeVars, restVars>>

\* the paths the file-system call of job id creates, moves, overwrites or
\* removes
Touch(id, paths) == effects' = {[job |-> id, path |-> p] : p \in paths}
\* what fs.ensureDir(dir) creates: dir and the directories above it, as far
\* as they are missing
Missing(dir) == ({dir} \cup Ancestors(dir)) \ disk
\* a step that calls nothing of the file system
NoTouch == effects' = {}

\* the Worker of the queue library takes a waiting job for a slot that runs
\* no job and calls processJob, whose prepareFileSystem issues its two
\* ensureDir calls
SlotFree(s) == slot[s] = NoJob
\* the processJob calls made so far
PoolRuns ==
    LET taken(id) == pool[id].made +
                     (IF pool[id].st \in {"active", "completed"} THEN 1 ELSE 0)
    IN  taken("1") + taken("2") + taken("12")
PoolTake(s, id) ==
    /\ SlotFree(s)
    /\ PoolRuns < MaxPoolRuns
    /\ pool[id].st = "waiting"
    /\ slot' = [slot EXCEPT ![s] = id]
    /\ pool' = [pool EXCEPT ![id] =
                   [PoolJob("active", "prepare", @.made, FALSE) EXCEPT
                       !.calls = pool[id].calls \cup
                                 {[dir |-> d, run |-> pool[id].made + 1] :
                                     d \in {"files", "temp"}}]]
    /\ NoTouch /\ UNCHANGED <<disk, otherVars>>

\* prepareFileSystem: one ensureDir call of the Promise.all settles.  A call
\* that resolves has made the directory and those above it.  While
\* processJob awaits the Promise.all the first rejection makes it throw,
\* before its try block, and the last resolution lets it go on; a call of
\* an earlier attempt, or one that settles after processJob has thrown,
\* only has its effect on the file system.
PoolEnsure(id, call, ok) ==
    LET dir == IF call.dir = "temp" THEN tempDir(id) ELSE filesDir(id)
        awaited == pool[id].pc = "prepare" /\ call.run = pool[id].made + 1
        left == {c \in pool[id].calls \ {call} : c.run = call.run}
    IN  /\ call \in pool[id].calls
        /\ IF ok
           THEN /\ disk' = disk \cup Missing(dir)
                /\ Touch(id, Missing(dir))
           ELSE NoTouch /\ UNCHANGED disk
        /\ pool' = [pool EXCEPT
                       ![id].calls = @ \ {call},
                       ![id].pc = IF awaited /\ ~ok THEN "settled"
                                  ELSE IF awaited /\ left = {} THEN "download"
                                  ELSE @,
                       ![id].threw = IF awaited /\ ~ok THEN TRUE ELSE @]
        /\ UNCHANGED <<slot, otherVars>>

\* the media operation awaits ensureDirectory(outputDir): it makes the
\* output directory again when it is missing and the subprocess is spawned,
\* or it rejects and the media operation throws
PoolOutputDir(id, ok) ==
    /\ pool[id].pc = "download"
    /\ IF ok
       THEN /\ disk' = disk \cup Missing(tempDir(id))
            /\ Touch(id, Missing(tempDir(id)))
            /\ pool' = [pool EXCEPT ![id].pc = "spawned"]
       ELSE /\ NoTouch /\ UNCHANGED disk
            /\ pool' = [pool EXCEPT ![id].pc = "cleanup", ![id].threw = TRUE]
    /\ UNCHANGED <<slot, otherVars>>

\* the subprocess writes its file under the output directory, making the
\* directories above the file that are missing by then
PoolWrite(id) ==
    LET file == FileIn(tempDir(id))
    IN  /\ pool[id].pc = "spawned"
        /\ disk' = disk \cup {file} \cup Missing(tempDir(id))
        /\ Touch(id, {file} \cup Missing(tempDir(id)))
        /\ pool' = [pool EXCEPT ![id].pc = "written"]
        /\ UNCHANGED <<slot, otherVars>>

\* the subprocess exits: either executeDownload resolves with the path its
\* 'data' handlers read from the Destination line, of which the chunk held
\* the first cut characters, or the subprocess fails, with or without a file
\* written, and it rejects
PoolDownload(id, cut, ok) ==
    LET file == FileIn(tempDir(id))
        parsed == CutPath(file, cut)
    IN  /\ pool[id].pc \in {"spawned", "written"}
        /\ cut \in 0..Len(PathChars(file))
        /\ ok => pool[id].pc = "written"
        /\ pool' = [pool EXCEPT
                       ![id].path = IF ok THEN parsed ELSE <<>>,
                       ![id].pc = IF ok /\ parsed # <<>> THEN "finalize"
                                  ELSE "cleanup",
                       ![id].threw = ~(ok /\ parsed # <<>>)]
        /\ NoTouch /\ UNCHANGED <<slot, disk, otherVars>>

\* finalizeFiles: fs.move(originalPath, join(filesDir, basename), {overwrite:
\* true}) moves the path the media operation returned, with everything below
\* it, and replaces what is at the destination; it rejects when the path
\* does not exist
PoolFinalize(id, ok) ==
    LET originalPath == pool[id].path
        destination == filesDir(id) \o <<LastName(originalPath)>>
        moved == {q \in disk : Under(q, originalPath)}
        replaced == {q \in disk : Under(q, destination)}
        arrived == {destination \o SubSeq(q, Len(originalPath) + 1, Len(q)) :
                       q \in moved}
    IN  /\ pool[id].pc = "finalize"
        /\ IF ok /\ originalPath \in disk
           THEN /\ disk' = ((disk \ moved) \ replaced) \cup arrived
                /\ Touch(id, moved \cup replaced \cup arrived)
                /\ pool' = [pool EXCEPT ![id].pc = "report"]
           ELSE /\ NoTouch /\ UNCHANGED disk
                /\ pool' = [pool EXCEPT ![id].pc = "cleanup", ![id].threw = TRUE]
        /\ UNCHANGED <<slot, otherVars>>

\* processVideoJob / processPlaylistJob after finalizeFiles: the awaited
\* trackProgress and buildFileMeta return or throw, the files already moved
PoolReport(id, ok) ==
    /\ pool[id].pc = "report"
    /\ pool' = [pool EXCEPT ![id].pc = "cleanup", ![id].threw = ~ok]
    /\ NoTouch /\ UNCHANGED <<slot, disk, otherVars>>

\* processJob's finally: fs.remove(tempDir).catch(() => {}): a removal that
\* fails is ignored and leaves the directory
PoolCleanup(id, removed) ==
    /\ pool[id].pc = "cleanup"
    /\ IF removed
       THEN /\ disk' = {p \in disk : ~Under(p, tempDir(id))}
            /\ Touch(id, {p \in disk : Under(p, tempDir(id))})
       ELSE NoTouch /\ UNCHANGED disk
    /\ pool' = [pool EXCEPT ![id].pc = "settled"]
    /\ UNCHANGED <<slot, otherVars>>

\* processJob has settled: the queue library completes, retries or fails
\* the job and the slot runs no job
PoolSettle(s) ==
    /\ slot[s] # NoJob
    /\ pool[slot[s]].pc = "settled"
    /\ slot' = [slot EXCEPT ![s] = NoJob]
    /\ pool' = [pool EXCEPT ![slot[s]] =
                   [(IF ~@.threw THEN PoolJob("completed", "none", @.made, FALSE)
                     ELSE IF @.made + 1 < Attempts
                     THEN PoolJob("waiting", "none", @.made + 1, FALSE)
                     ELSE PoolJob("failed", "none", @.made + 1, FALSE))
                    EXCEPT !.calls = pool[slot[s]].calls]]
    /\ NoTouch /\ UNCHANGED <<disk, otherVars>>

\* the length of the Destination line's path: the chunk holds all of it
WholePath(id) == Len(PathChars(FileIn(tempDir(id))))

\* the worker when the calls into the file system and the subprocesses can
\* fail, the output of a subprocess arriving in whole lines
PoolNext ==
    \/ \E s \in Slots, id \in PoolJobs : PoolTake(s, id)
    \/ \E id \in PoolJobs, ok \in BOOLEAN :
          \E call \in pool[id].calls : PoolEnsure(id, call, ok)
    \/ \E id \in PoolJobs, ok \in BOOLEAN : PoolOutputDir(id, ok)
    \/ \E id \in PoolJobs : PoolWrite(id)
    \/ \E id \in PoolJobs, ok \in BOOLEAN :
          PoolDownload(id, WholePath(id), ok)
    \/ \E id \in PoolJobs, ok \in BOOLEAN : PoolFinalize(id, ok)
    \/ \E id \in PoolJobs, ok \in BOOLEAN : PoolReport(id, ok)
    \/ \E id \in PoolJobs, removed \in BOOLEAN : PoolCleanup(id, removed)
    \/ \E s \in Slots : PoolSettle(s)

SpecPool == FilesInit /\ [][PoolNext]_vars

\* job 2 has completed: its file is in its final directory
PathsInit ==
    /\ JobInit(CHOOSE j \in VideoJobs : j.format = "mp4")
    /\ RestInit
    /\ events = NoEvents
    /\ bus = "ok"
    /\ slot = [s \in Slots |-> NoJob]
    /\ pool = [id \in PoolJobs |->
                 PoolJob(IF id = "2" THEN "completed" ELSE "waiting", "none", 0, FALSE)]
    /\ disk = {FileIn(filesDir("2")), filesDir("2")} \cup Ancestors(filesDir("2"))
    /\ effects = {}

\* the worker when the calls into the file system and the subprocesses can
\* fail and the output of a subprocess arrives in chunks of any length
PathsNext ==
    \/ \E s \in Slots, id \in PoolJobs : PoolTake(s, id)
    \/ \E id \in PoolJobs, ok \in BOOLEAN :
          \E call \in pool[id].calls : PoolEnsure(id, call, ok)
    \/ \E id \in PoolJobs, ok \in BOOLEAN : PoolOutputDir(id, ok)
    \/ \E id \in PoolJobs : PoolWrite(id)
    \/ \E id \in PoolJobs, ok \in BOOLEAN :
          \E cut \in 0..WholePath(id) : PoolDownload(id, cut, ok)
    \/ \E id \in PoolJobs, ok \in BOOLEAN : PoolFinalize(id, ok)
    \/ \E id \in PoolJobs, ok \in BOOLEAN : PoolReport(id, ok)
    \/ \E id \in PoolJobs, removed \in BOOLEAN : PoolCleanup(id, removed)
    \/ \E s \in Slots : PoolSettle(s)

SpecPaths == PathsInit /\ [][PathsNext]_vars

(***************************************************************************)
(* The rate-limited download routes                                        *)
(***************************************************************************)
\* POST of a rate-limited download route up to its first await: the
\* request is counted by checkRateLimit and, when it is denied, answered
\* with 429 at once
LimitedDownload(route, forwardedFor, body) ==
    LET name == IF route = "video" THEN "download:video" ELSE "download:playlist"
        key == keyGenerator(forwardedFor, ClientIp(forwardedFor))
        rate == checkRateLimit(limits[name], key, now, RateMax(name))
    IN  /\ BagCardinality(checked) < PriorChecks + MaxChecks
        /\ rate.allowed => BagCardinality(requests) < MaxInFlight
        /\ limits' = [limits EXCEPT ![name] = rate.map]
        /\ checked' = checked (+) SetToBag(
              {[name |-> name, key |-> key, t |-> now, allowed |-> rate.allowed,
                start |-> rate.map[key].start]})
        /\ IF rate.allowed
           THEN /\ requests' = requests (+) SetToBag({[route |-> route, body |-> body]})
                /\ post' = post
           ELSE /\ requests' = requests
                /\ post' = Post(route, body, <<>>, NoKey, NoKey,
                                LimitedRoute(rate, body, FALSE).status)
        /\ UNCHANGED <<workerVars, poolVars, now, tokens, resp, added, text, client>>
        /\ UNCHANGED <<updates, sweep>>

\* the rest of POST for a request the limiter allowed: await request.json(),
\* the url checks, await downloadQueue.add, and the answer
LimitedAnswer(request, queueUp) ==
    LET answer == LimitedRoute([allowed |-> TRUE], request.body, queueUp)
    IN  /\ BagIn(request, requests)
        /\ Len(added) < MaxAdds
        /\ requests' = requests (-) SetToBag({request})
        /\ post' = Post(request.route, request.body, <<>>, NoKey, NoKey,
                        answer.status)
        /\ added' = IF answer.added
                    THEN Append(added, [name |-> request.route, url |-> request.body])
                    ELSE added
        /\ UNCHANGED <<workerVars, poolVars, now, tokens, resp, text, client>>
        /\ UNCHANGED <<limits, checked, updates, sweep>>

LimitNext ==
    \/ Tick
    \/ \E route \in {"video", "playlist"}, forwardedFor \in ForwardedFor,
          body \in LimitedBodies : LimitedDownload(route, forwardedFor, body)
    \/ \E request \in BagToSet(requests), queueUp \in BOOLEAN :
          LimitedAnswer(request, queueUp)

\* the limiter is observed from a state in which the client that sends no
\* x-forwarded-for header has, at time 0, used all but one of the requests
\* of its window on either route; those requests carried a body that is
\* not JSON, so no job was added for them
LimitInit ==
    /\ JobInit(CHOOSE j \in VideoJobs : j.format = "mp4")
    /\ bus = "ok"
    /\ PoolIdle
    /\ events = NoEvents
    /\ SideInit
    /\ limits = [name \in LimiterNames |->
                    After(RateMax(name) - 1, NoRecords[name], PriorKey, RateMax(name))]
    /\ checked = [r \in {PriorRecord(name) : name \in LimiterNames} |->
                     RateMax(r.name) - 1]

SpecLimit == LimitInit /\ [][LimitNext]_vars

(***************************************************************************)
(* Requests to the download routes and to the job route                    *)
(***************************************************************************)
\* the bodies sent to the handlers behind the API key: not JSON, no url, a
\* url that is a number, a YouTube url and a url of another site
KeyedBodies ==
    {InvalidJson, Url("undefined", FALSE, "", <<>>), Url("number", FALSE, "", <<>>),
     WebUrl("https:", <<"youtu", "be">>), WebUrl("https:", <<"example", "org">>)}

\* a request to each of the handlers that count no requests (SpecLimit
\* follows the rate-limited ones); the key matters to the keyed handlers only
ApiNext ==
    \/ \E route \in {"video", "playlist"}, url \in RequestUrls, queueUp \in BOOLEAN :
          Download(route, "checked", NoKey, NoKey, url, queueUp)
    \/ \E route \in {"video", "playlist"}, headerKey \in ApiKeys, envKey \in ApiKeys,
          url \in KeyedBodies, queueUp \in BOOLEAN :
          Download(route, "keyed", headerKey, envKey, url, queueUp)
    \/ \E id \in RequestJobIds, headerKey \in ApiKeys, envKey \in ApiKeys,
          queueOk \in BOOLEAN : GetJobStatus(id, headerKey, envKey, queueOk)

SpecApi == FilesInit /\ [][ApiNext]_vars

(***************************************************************************)
(* executeDownload when 'data' events are delivered after 'exit': the      *)
(* promise settles on the child's 'exit' event, the stdio streams can      *)
(* still hold output then, and the 'data' handlers stay attached           *)
(***************************************************************************)
\* a 'data' event of the child of a settled executeDownload call
LateData(chunk, cbs) ==
    /\ job = DirectCall
    /\ pc = "returned"
    /\ nchunks < MaxExecChunks
    /\ nchunks' = nchunks + 1
    /\ filePath' = NextFilePath(chunk, filePath)
    /\ lastPercent' = NextLastPercent(chunk, lastPercent)
    /\ calls' = calls \o cbs
    /\ UNCHANGED <<jobVars, pc, attemptVars, procs, exited, fsVars, deadLetter>>
    /\ UNCHANGED <<streamVars, busVars, routeVars, poolVars, restVars>>

LateNext ==
    \/ ExecNext
    \/ \E c \in ExecChunks : LateData(c, StdoutCalls(c, lastPercent))
    \/ \E c \in ExecChunks : LateData(c, StderrCalls(c, lastPercent))

SpecLate == ExecInit /\ [][LateNext]_vars

\* a 'data' event of the child of an executeDownload call that has settled:
\* the handler still holds the call's lastPercent and its progress callback,
\* wrappedProgress or the playlistProgress of that item, which calls the
\* worker's trackProgress.  wrappedProgress sets the started flag of its
\* downloadVideo call.  The filePath the handler sets is read by nobody
\* any more.
LateCallback(n, chunk, stream) ==
    /\ n \in 1..Len(exited)
    /\ pc # "crashed"
    /\ exited[n].chunks < MaxChunks
    /\ LET last == exited[n].lastPercent
           cbs == IF stream = "stdout" THEN StdoutCalls(chunk, last)
                  ELSE StderrCalls(chunk, last)
       IN  /\ exited' = [exited EXCEPT
                            ![n].chunks = @ + 1,
                            ![n].lastPercent = NextLastPercent(chunk, last)]
           /\ IF Len(cbs) > 0
              THEN /\ started' = (started \/
                                  (exited[n].run = runs /\ pc \notin
                                       {"idle", "onfailed", "onfailedpublish"}))
                   /\ TrackProgress(RelayBy(exited[n].callback, cbs[1]), FALSE)
              ELSE UNCHANGED <<started, updates>>
    /\ UNCHANGED <<jobVars, pc, items, i, files, movedFiles, spawned, err, outcome>>
    /\ UNCHANGED <<procs, lastPercent, filePath, calls, nchunks>>
    /\ UNCHANGED <<fsVars, deadLetter, streamVars>>
    /\ UNCHANGED <<busVars, routeVars, poolVars, sideVars>>

\* the progress lines a late chunk can carry
LateChunks == {<<PctTok(v)>> : v \in JobPercents} \cup {<<NoiseTok>>}

\* a video job for either format and a playlist job of two items, not retried
LateJobs ==
    {[name |-> "video", format |-> f, listing |-> <<>>, sel |-> <<>>,
      attempts |-> 1] : f \in {"mp4", "mp3"}}
        \cup {[name |-> "playlist", format |-> "mp4", listing |-> SubSeq(Ids, 1, 2),
                sel |-> <<>>, attempts |-> 1]}

LateJobInit == \E j \in LateJobs : InitWith(j) /\ bus = "ok"

LateJobNext ==
    \/ AttemptSteps
    \/ StartVideo(TRUE)
    \/ StartPlaylist(TRUE)
    \/ ensureDirectory(TRUE)
    \/ ConvertEnd(TRUE)
    \/ RemoveInput(TRUE)
    \/ \E code \in ExitCodes : ChildExit(code, TRUE)
    \/ \E n \in 1..MaxItems, c \in LateChunks, stream \in {"stdout", "stderr"} :
          LateCallback(n, c, stream)

SpecLateJob == LateJobInit /\ [][LateJobNext]_vars

(***************************************************************************)
(* Playlist jobs whose items have titles that sanitize to the same name,   *)
(* on a file system and a publisher that do not fail                       *)
(***************************************************************************)
\* a playlist of A ("T A") and D ("T: A"), and one of A and C ("T C")
TitleJobs ==
    {[name |-> "playlist", format |-> f, listing |-> l, sel |-> <<>>,
      attempts |-> 1] :
        f \in {"mp4", "mp3"}, l \in {<<"A", "D">>, <<"A", "C">>}}

TitlesInit == \E j \in TitleJobs : InitWith(j) /\ bus = "ok"

TitlesNext ==
    \/ Pickup
    \/ PrepareResolves
    \/ StartPlaylist(TRUE)
    \/ ensureDirectory(TRUE)
    \/ Spawn
    \/ JobData
    \/ \E code \in ExitCodes : ProcExit(code)
    \/ ConvertEnd(TRUE)
    \/ \E removed \in BOOLEAN : RemoveInput(removed)
    \/ MoveFile(TRUE)
    \/ FinalProgress
    \/ UpdateProgress(TRUE)
    \/ BuildFileMeta(TRUE)
    \/ PublishCompleted
    \/ Catch
    \/ Finally(TRUE)
    \/ MoveToCompleted
    \/ MoveToFailed
    \/ OnFailed(TRUE)
    \/ OnFailedPublish

SpecTitles == TitlesInit /\ [][TitlesNext]_vars

(***************************************************************************)
(* executeDownload fed one output text under every split into chunks       *)
(***************************************************************************)
\* lines of the output text
MaxLines == 3
TextLines ==
    {DestTok(p) : p \in ExecPaths} \cup {MergeTok(p) : p \in ExecPaths}
        \cup {PctTok(42), NoiseTok}
Texts == UNION {[1..m -> TextLines] : m \in 0..MaxLines}

\* the subprocess is going to print the lines t
Prints(t) ==
    /\ job = DirectCall
    /\ ~text.set
    /\ nchunks = 0
    /\ pc = "running"
    /\ text' = [set |-> TRUE, lines |-> t, pos |-> 0, rest |-> <<>>]
    /\ UNCHANGED <<workerVars, routeVars, poolVars, limits, checked, client>>
    /\ UNCHANGED <<updates, sweep, requests>>

\* A 'data' event can end inside a line.  yt-dlp prints
\*   [download] Destination: <path>      (the path in quotes in other tools)
\*   [Merger] Merging formats into "<path>"
\*   [download]  42.0% of ...
\* each ended by a newline.  The places a line is cut at, by what the two
\* pieces are to extractFilePath, extractPercentage and trim():
\*   prefix    inside the bracketed prefix, before the marker or the digits:
\*             the first piece matches nothing, the second is the line
\*   marker    inside 'Destination: ', anywhere between 'Merging' and the
\*             closing quote, before the '%', or inside other text: no piece
\*             matches
\*   path      inside the path of a Destination line, before its extension:
\*             the first piece names the path up to the cut
\*   digits    between the digits of a percentage ('4' and '2.0%'): the
\*             second piece carries the digits after the cut
\*   fraction  at the decimal point ('42' and '.0%'): the second piece
\*             carries the fraction
\*   after     behind the '%', or before the closing quote of a quoted
\*             Destination path: the first piece is the line, the second is
\*             other text
\*   end       before the newline: the first piece is the line, the second
\*             is blank
CutNames == {"prefix", "marker", "path", "digits", "fraction", "after", "end"}
Cuts(line) ==
    IF line.k = "dest" THEN {"prefix", "marker", "path", "after", "end"}
    ELSE IF line.k = "merge" THEN {"prefix", "marker", "end"}
    ELSE IF line.k = "pct"
    THEN {"prefix", "marker", "digits", "fraction", "after", "end"}
    ELSE {"marker", "end"}
FirstPiece(line, cut) ==
    IF cut \in {"after", "end"} THEN line
    ELSE IF line.k = "dest" /\ cut = "path" THEN DestTok(MkPath(line.p.base, "none"))
    ELSE NoiseTok
SecondPiece(line, cut) ==
    IF cut = "prefix" THEN line
    ELSE IF cut = "end" THEN BlankTok
    ELSE IF line.k = "pct" /\ cut = "digits" THEN PctTok(line.v % 10)
    ELSE IF line.k = "pct" /\ cut = "fraction" THEN PctTok(0)
    ELSE NoiseTok

\* a 'data' event delivers, as one chunk, what is left of a line that was
\* cut, the next n lines of the text and, when cut is not "none", the first
\* piece of the line after them
Feed(n, cut, stream) ==
    LET whole == SubSeq(text.lines, text.pos + 1, text.pos + n)
        last == text.pos + n + 1
        chunk == text.rest \o whole \o
                    (IF cut = "none" THEN <<>>
                     ELSE <<FirstPiece(text.lines[last], cut)>>)
    IN  /\ text.set
        /\ IF cut = "none"
           THEN text.pos + n <= Len(text.lines)
           ELSE last <= Len(text.lines) /\ cut \in Cuts(text.lines[last])
        /\ chunk # <<>>
        /\ OnDataStep(chunk, IF stream = "stdout"
                             THEN StdoutCalls(chunk, lastPercent)
                             ELSE StderrCalls(chunk, lastPercent))
        /\ text' = [text EXCEPT
                       !.pos = IF cut = "none" THEN text.pos + n ELSE last,
                       !.rest = IF cut = "none" THEN <<>>
                                ELSE <<SecondPiece(text.lines[last], cut)>>]
        /\ UNCHANGED <<limits, checked, client, sweep, requests>>

\* the process exits after its output has been delivered
ExitAfterOutput(code) ==
    /\ text.set
    /\ text.pos = Len(text.lines)
    /\ text.rest = <<>>
    /\ ProcExit(code)

ChunksNext ==
    \/ \E t \in Texts : Prints(t)
    \/ \E n \in 0..MaxLines, cut \in {"none"} \cup CutNames,
          stream \in {"stdout", "stderr"} : Feed(n, cut, stream)
    \/ \E code \in ExitCodes : ExitAfterOutput(code)

SpecChunks == ExecInit /\ [][ChunksNext]_vars

(***************************************************************************)
(* The browser client: components/ProgressList.tsx, for one tracked job.   *)
(* phase is the position of the job's connect() call: fetching (awaiting   *)
(* fetch), reading (in the read loop), idle (no connection).               *)
(***************************************************************************)
\* times the effect runs while the client is observed
MaxRenders == 2
ShownPercents == {0, 50, 100}

ClientUnchanged ==
    UNCHANGED <<pc, attemptVars, procs, execVars, fsVars, deadLetter, streamVars,
                busVars, routeVars, poolVars, limits, checked, text,
                updates, sweep, requests>>

\* connect(): returns at once if controllersRef holds a controller for the
\* job, else stores a new controller and starts the fetch
connect(c) ==
    IF c.held THEN c ELSE [c EXCEPT !.held = TRUE, !.phase = "fetching"]

\* the catch block of connect() for a controller that was not aborted
Reconnecting(c) ==
    [c EXCEPT !.status = "reconnecting", !.held = FALSE, !.retry = TRUE,
              !.phase = "idle"]

\* the job is picked up, completes or fails on the server
JobMoves(s) ==
    /\ state = "waiting" \/ (state = "active" /\ s # "active")
    /\ state' = s
    /\ UNCHANGED <<job, attemptsMade, runs, progress, returnvalue, failedReason>>
    /\ UNCHANGED client
    /\ ClientUnchanged

\* the effect runs (first render, or trackedJobIds changed): the cleanup of
\* the previous run aborts every controller, clears every retry timer and
\* empties both refs; then connect() is called for the job
EffectRuns ==
    /\ client.renders < MaxRenders
    /\ client' = connect([client EXCEPT !.held = FALSE, !.phase = "idle",
                                        !.retry = FALSE, !.renders = @ + 1])
    /\ UNCHANGED jobVars
    /\ ClientUnchanged

\* fetch rejects, or the response is not ok or has no body
FetchFails ==
    /\ client.phase = "fetching"
    /\ client' = Reconnecting(client)
    /\ UNCHANGED jobVars
    /\ ClientUnchanged

\* fetch resolves with the event stream
FetchOk ==
    /\ client.phase = "fetching"
    /\ client' = [client EXCEPT !.phase = "reading"]
    /\ UNCHANGED jobVars
    /\ ClientUnchanged

\* a progress event is read, whatever the job is doing by then
ReadProgress(percent) ==
    /\ client.phase = "reading"
    /\ client' = [client EXCEPT !.status = "active", !.percent = percent]
    /\ UNCHANGED jobVars
    /\ ClientUnchanged

\* a complete or error event is read: the client goes by the type of the
\* event; the status is shown, the retry timer cleared, the controller
\* aborted and removed from controllersRef.  The stream sends complete for a
\* completed job, and error for a failed job or, whatever the job is doing,
\* when it cannot read the job ('Job not found', 'Unable to load job
\* progress').
ReadTerminal(type) ==
    /\ client.phase = "reading"
    /\ type = "complete" => state = "completed"
    /\ client' = [client EXCEPT !.status = IF type = "complete"
                                           THEN "completed" ELSE "failed",
                                !.percent = IF type = "complete" THEN 100 ELSE 0,
                                !.retry = FALSE, !.held = FALSE, !.phase = "idle"]
    /\ UNCHANGED jobVars
    /\ ClientUnchanged

\* reader.read() rejects while the controller is not aborted
ReadFails ==
    /\ client.phase = "reading"
    /\ client' = Reconnecting(client)
    /\ UNCHANGED jobVars
    /\ ClientUnchanged

\* the stream ends with no complete or error event read: reader.read()
\* resolves with done, the loop breaks and connect() returns
ReadDone ==
    /\ client.phase = "reading"
    /\ client' = [client EXCEPT !.phase = "idle"]
    /\ UNCHANGED jobVars
    /\ ClientUnchanged

\* the retry timer fires: its entry is removed and connect() is called
RetryFires ==
    /\ client.retry
    /\ client' = connect([client EXCEPT !.retry = FALSE])
    /\ UNCHANGED jobVars
    /\ ClientUnchanged

ClientSteps ==
    \/ FetchFails
    \/ FetchOk
    \/ \E percent \in ShownPercents : ReadProgress(percent)
    \/ \E type \in {"complete", "error"} : ReadTerminal(type)
    \/ ReadFails
    \/ ReadDone
    \/ RetryFires

ClientNext ==
    \/ \E s \in {"active", "completed", "failed"} : JobMoves(s)
    \/ EffectRuns
    \/ ClientSteps

SpecClient == FilesInit /\ [][ClientNext]_vars

\* the first render happens, timers fire and pending reads settle; a fetch
\* that is retried again and again succeeds at some time, and a stream that
\* is read again and again delivers the terminal event of an ended job
SpecClientLive ==
    /\ SpecClient
    /\ WF_vars(client.renders = 0 /\ EffectRuns)
    /\ WF_vars(ClientSteps)
    /\ SF_vars(FetchOk)
    /\ SF_vars(\E type \in {"complete", "error"} : ReadTerminal(type))

(***************************************************************************)
(* Claims                                                                  *)
(***************************************************************************)
NonDecreasing(seq) ==
    \A m \in 1..Len(seq) : \A n \in m..Len(seq) : seq[m] <= seq[n]

\* C1: the percent values executeDownload passes to its progress callback,
\* for chunks arriving on stdout and stderr in any interleaving, form a
\* non-decreasing sequence.
C1_CallbackPercentsNonDecreasing == NonDecreasing(calls)

\* C1 witness: a lower percentage arrived after a higher one and was not
\* passed on; a later higher one was.
C1_Witness ==
    /\ job = DirectCall
    /\ nchunks = 3
    /\ calls = <<10, 42>>

\* the terminal event the stored job record stands for
StoredTerminalEvent ==
    IF state = "completed"
    THEN Sent("complete", NoProgress, returnvalue, NoErr)
    ELSE Sent("error", NoProgress, NoResult, failedReason)

\* the events of the job a stream has sent (its heartbeats are not events
\* of the job)
JobEvents == SelectSeq(out, LAMBDA e : e.type # "heartbeat")

\* C2 (as claimed): a stream subscribed after the job reached a terminal
\* state sends the terminal event of the stored job record (complete with
\* the stored result, error with the stored failure reason) as its first
\* and only event, sends no progress event, and is then closed.
C2_LateSubscriptionTerminalFirst ==
    subState \in {"completed", "failed"} =>
        /\ \A n \in 1..Len(out) : out[n].type # "progress"
        /\ JobEvents # <<>> =>
              (sub = "closed" /\ JobEvents = <<StoredTerminalEvent>>)
        /\ sub \in {"open", "closed"} => JobEvents # <<>>

\* processJob has settled for the latest attempt
AttemptEnded ==
    pc \in {"settled", "onfailed", "onfailedpublish"} \/ (pc = "idle" /\ runs > 0)

\* C3 (as claimed): once processJob has settled, by returning or by throwing
\* (unsupported job type, download failure, conversion failure, failed move),
\* the job's temp directory does not exist.
C3_TempDirRemoved == AttemptEnded => (~tmpExists /\ tmpFiles = {})

\* C4 (as claimed): when an attempt has ended, the final storage directory
\* holds exactly the files of the attempt's result, and nothing when the
\* attempt failed.
C4_FinalStorageExact ==
    pc = "settled" =>
        storage = IF outcome = "return" THEN Range(movedFiles) ELSE {}

C6_DeadLetterOnlyWhenTerminal ==
    /\ deadLetter # <<>> => state = "failed"
    /\ Len(deadLetter) <= 1

\* C7: at most one subprocess (yt-dlp or ffmpeg) of the job is in flight, and
\* while one is in flight for an item every earlier item of the attempt is
\* finished (its file, converted when mp3, is in files).
C7_OneSubprocessAtATime ==
    /\ Len(procs) <= 1
    /\ procs # <<>> =>
          /\ spawned # <<>>
          /\ procs[1].item = spawned[Len(spawned)]
          /\ Len(files) = Len(spawned) - 1

\* C7 witness: the conversion of the second item of an mp3 playlist is in
\* flight.
C7_Witness ==
    /\ job.name = "playlist"
    /\ Len(spawned) = 2
    /\ procs = <<Proc("ffmpeg", spawned[2])>>

\* position n of the listing is in the selection of the payload
Selected(n) == Len(job.sel) = 0 \/ job.listing[n] \in Range(job.sel)
AllSelected == {n \in 1..Len(job.listing) : Selected(n)}

\* C8: the subprocesses of a playlist attempt target selected items of the
\* listing only, in listing order, each at most once and none skipped; when
\* the media operation has succeeded they are exactly the selected items.
C8_SpawnsSelectedInListingOrder ==
    job.name = "playlist" =>
        /\ \A n \in 1..Len(spawned) : spawned[n] \in AllSelected
        /\ \A m \in 1..Len(spawned) : \A n \in 1..Len(spawned) :
              m < n => spawned[m] < spawned[n]
        /\ \A n \in Range(spawned) : \A k \in AllSelected :
              k < n => k \in Range(spawned)
        /\ (pc = "finalize" \/ (pc = "finally" /\ outcome = "return")) =>
              Range(spawned) = AllSelected

\* C8 witness: selectedVideoIds names B before A; the attempt has spawned
\* for A, then for B, and succeeded.
C8_Witness ==
    /\ job.name = "playlist"
    /\ job.sel = <<"B", "A">>
    /\ spawned = <<1, 2>>
    /\ pc = "finally"
    /\ outcome = "return"

\* the files yt-dlp writes before conversion
Intermediates ==
    {OutPath(job, k) : k \in {0} \cup Range(ItemsToDownload(job.listing, job.sel))}

\* C9 (as claimed): for format mp3 every path of the result ends in .mp3, and
\* once the attempt has ended no pre-conversion file is in the temp directory
\* or in the final storage directory.
C9_Mp3Only ==
    TargetFormat(job) = "mp3" =>
        /\ \A n \in 1..Len(files) : files[n].ext = "mp3"
        /\ \A n \in 1..Len(returnvalue.files) : returnvalue.files[n].ext = "mp3"
        /\ AttemptEnded => (tmpFiles \cup storage) \cap Intermediates = {}

\* the percent values of the progress events a stream has sent
ProgressPercents ==
    LET ps == SelectSeq(out, LAMBDA e : e.type = "progress")
    IN  [n \in 1..Len(ps) |-> ps[n].percent]

\* C10 (as claimed): the percent values of the progress events one stream
\* sends for a job, the initial snapshot included, are non-decreasing.
C10_StreamPercentsNonDecreasing == NonDecreasing(ProgressPercents)

\* C11 (as claimed): a chunk, on stdout or on stderr, whose parsed percentage
\* is lower than the highest percentage seen so far for the work item causes
\* no invocation of the progress callback.
C11_LowerPercentNotCalled ==
    [][\A c \in ExecChunks :
          (/\ extractPercentage(c) # NoPercent
           /\ extractPercentage(c) < lastPercent
           /\ (StdoutData(c) \/ StderrData(c)))
          => calls' = calls]_vars

\* C12: a file enters the final storage directory only by a move made when
\* no subprocess of the job is in flight and every item of the attempt has
\* finished (its subprocess exited with code 0 and, for mp3, its conversion
\* ended, so its final path is in files); the file moved is one of those
\* final paths.
C12_MovedOnlyAfterAllFinished ==
    [][(storage' # storage \/ Len(movedFiles') > Len(movedFiles)) =>
          /\ procs = <<>>
          /\ items # <<>>
          /\ Len(files) = Len(items)
          /\ spawned = items
          /\ Len(movedFiles') = Len(movedFiles) + 1
          /\ movedFiles'[Len(movedFiles')] = files[Len(movedFiles')]
          /\ storage' = storage \cup {files[Len(movedFiles')]}
          /\ TargetFormat(job) = "mp3" => files[Len(movedFiles')].ext = "mp3"]_vars

\* C12 witness: both files of an mp3 playlist have been moved.
C12_Witness ==
    /\ job.name = "playlist"
    /\ job.format = "mp3"
    /\ pc = "finalize"
    /\ Len(movedFiles) = 2
    /\ Range(movedFiles) \subseteq storage

\* the errors executeDownload and convertToMp3 raise for one item
ItemFailureKinds == {"download", "nopath", "convert"}

\* C13: when the download or the conversion of a playlist item has failed,
\* the error names that item by its title, or by its id when it has no
\* title; the failed item is the last one a subprocess was spawned for; no
\* file has been moved into final storage in the attempt and the attempt
\* returns no result.
C13_ItemFailureAbortsPlaylist ==
    (/\ job.name = "playlist"
     /\ pc \in {"catch", "finally", "settled"}
     /\ err.kind \in ItemFailureKinds) =>
        /\ spawned = SubSeq(items, 1, i)
        /\ i <= Len(items)
        /\ LET id == job.listing[items[i]]
           IN  err.label = IF Title(id) # "" THEN Title(id) ELSE id
        /\ procs = <<>>
        /\ Len(files) = i - 1
        /\ movedFiles = <<>>
        /\ outcome # "return"
        /\ returnvalue = NoResult

\* C13 witness: the conversion of the second item, which has no title,
\* failed after the first item was downloaded and converted.
C13_Witness ==
    /\ job.name = "playlist"
    /\ pc = "settled"
    /\ err = Err("convert", "B")
    /\ spawned = <<1, 2>>
    /\ Len(files) = 1

\* C14: when no item of the listing is selected (the listing is empty, or no
\* requested id occurs in it) the playlist attempt fails with the empty
\* selection error without having spawned a subprocess or created the
\* playlist folder.
C14_EmptySelectionFailsFast ==
    (job.name = "playlist" /\ AllSelected = {}) =>
        /\ spawned = <<>>
        /\ procs = <<>>
        /\ PlaylistDir \notin tmpFiles
        /\ pc \notin {"mkdir", "loop", "running", "converting", "removing",
                     "finalize", "tracking", "publish"}
        /\ pc \in {"catch", "finally", "settled", "onfailed"} => err.kind = "empty"
        /\ state # "completed"

\* C14 witness: the only requested id is not in a listing of two items and
\* the attempt has thrown.
C14_Witness ==
    /\ job.name = "playlist"
    /\ Len(job.listing) = 2
    /\ job.sel = <<"C">>
    /\ pc = "finally"
    /\ outcome = "throw"
    /\ tmpExists

\* C15: executeDownload resolves, with the parsed path, exactly when the
\* subprocess exits with code 0 and a destination marker was parsed; it
\* rejects with the download error when the exit code is not 0 or the process
\* errors, whether or not a path was parsed, and with the 'path could not be
\* determined' error when the exit code is 0 and no marker was parsed.
C15_ResolvesIffExitZeroAndPath ==
    [][\A code \in ExitCodes :
          (job = DirectCall /\ ProcExit(code)) =>
              /\ (err'.kind = "ok") <=> (code = 0 /\ filePath # NoPath)
              /\ err'.kind = "ok" => files' = <<filePath>>
              /\ code # 0 => (err'.kind = "download" /\ files' = <<>>)
              /\ (code = 0 /\ filePath = NoPath) =>
                    (err'.kind = "nopath" /\ files' = <<>>)]_vars

\* C15 witness: the subprocess exited after a destination marker was parsed
\* and executeDownload rejected.
C15_Witness ==
    /\ job = DirectCall
    /\ pc = "returned"
    /\ filePath # NoPath
    /\ err.kind = "download"

\* C16 (as claimed): on a failure path the temp directory is removed only
\* after the failure event was published and the failure reason of the
\* attempt was persisted on the job record.
C16_PublishPersistThenCleanup ==
    (outcome = "throw" /\ pc \in {"finally", "settled"} /\ ~tmpExists) =>
        /\ "error" \in Range(published)
        /\ attemptsMade = runs
        /\ failedReason = err

\* C17 (as claimed): the worker never publishes both a failure event and a
\* completion event for the job, and no stream emits both, over all attempts.
C17_TerminalOutcomesExclusive ==
    /\ ~("error" \in Range(published) /\ "completed" \in Range(published))
    /\ ~(\E m \in 1..Len(out) : \E n \in 1..Len(out) :
            out[m].type = "error" /\ out[n].type = "complete")

\* C18: a stream emits at most one terminal event; it is the last event of
\* the stream and the server has closed the stream after it.
C18_OneTerminalEventThenClosed ==
    \A n \in 1..Len(out) :
        out[n].type \in {"complete", "error"} => (n = Len(out) /\ sub = "closed")

\* C18 witness: a stream sent its initial event and a heartbeat, then the
\* terminal event of the job, and is closed.
C18_Witness ==
    /\ sub = "closed"
    /\ Len(out) = 3
    /\ out[1].type = "progress"
    /\ out[2].type = "heartbeat"
    /\ out[3].type \in {"complete", "error"}

\* C19: a publish that fails, or is skipped because the publisher is not
\* connected, never changes the outcome of the job: no error of an attempt
\* comes from a publish, an attempt whose files were all moved returns its
\* result whatever the publisher does, and a change of the publisher's
\* condition touches nothing of the job, its files or the failed queue.
C19_PublishNeverChangesOutcome ==
    [][/\ err'.kind # "publish"
       /\ failedReason'.kind # "publish"
       /\ (pc = "finalize" /\ Len(movedFiles) = Len(files) /\ pc' # pc) =>
             pc' = "tracking"
       /\ (pc \in {"tracking", "publish"} /\ pc' # pc) =>
             \/ pc' = "publish"
             \/ pc' = "finally" /\ outcome' = "return"
       /\ bus' # bus =>
             UNCHANGED <<jobVars, pc, attemptVars, procs, fsVars, deadLetter>>]_vars

\* C19 witness: the job completed although no publish of the worker went
\* through and the publisher is failing.
C19_Witness ==
    /\ state = "completed"
    /\ returnvalue.files # <<>>
    /\ published = <<>>
    /\ bus = "fail"

\* the signed tokens the presented token of the last request was made from:
\* those with the same signature
SourcesOfPresented == {t \in tokens : t.token.sig = resp.token.sig}

\* C20 (as claimed): a request that presents a token signed for another
\* (jobId, fileName), or an expired token, is answered with 403.
C20_MismatchOrExpiredGets403 ==
    \A t \in SourcesOfPresented :
        (/\ resp.route = "file"
         /\ resp.queue
         /\ \/ resp.jobId # t.jobId
            \/ Basename(resp.file) # t.fileName
            \/ resp.at > t.token.exp) => resp.status = 403

\* C20 (amended): the file route streams a file only for a request that
\* presents, unchanged and not after its expiry, a token signed for the
\* requested jobId and file name, and the file streamed is the file of that
\* name; a request with a token signed for another (jobId, fileName) or with
\* an expired token is never served, and is answered with 403 whenever the
\* requested job exists and is completed (404 / 409 otherwise; 500 when the
\* queue cannot be read).
C20_ServedOnlyWithBoundFreshToken ==
    /\ (resp.route = "file" /\ resp.status \in {200, 206}) =>
          \E t \in tokens :
             /\ t.jobId = resp.jobId
             /\ t.fileName = Basename(resp.file)
             /\ t.token = resp.token
             /\ resp.at <= t.token.exp
             /\ resp.served = t.fileName
    /\ \A t \in SourcesOfPresented :
          (/\ resp.route = "file"
           /\ \/ resp.jobId # t.jobId
              \/ Basename(resp.file) # t.fileName
              \/ resp.at > t.token.exp) =>
              /\ resp.served = <<>>
              /\ resp.queue => resp.status \in {403, 404, 409}
              /\ (/\ resp.queue
                  /\ \E j \in StoredJobs :
                        j.id = resp.jobId /\ j.state = "completed")
                    => resp.status = 403

\* C20 witness: a token signed for file a of job 1 was presented, before its
\* expiry, for file a of the completed job 12 and the request was refused.
C20_Witness ==
    /\ resp.route = "file"
    /\ resp.status = 403
    /\ resp.jobId = <<"1", "2">>
    /\ resp.file = <<"a">>
    /\ \E t \in tokens :
          /\ t.jobId = <<"1">>
          /\ t.fileName = <<"a">>
          /\ resp.token = t.token
          /\ resp.at <= t.token.exp

\* C21: the file route and the zip route release no file content for a job
\* that is not completed: the answer is 409 when the job is waiting, active,
\* delayed or failed and 404 when there is no such job, whatever token is
\* presented.
\* (the status is that of a request whose reads of the queue are answered)
C21_NotCompletedNeverReleased ==
    resp.route \in {"file", "zip"} =>
        /\ ~HasJob(resp.jobId) =>
              /\ resp.served = <<>> /\ resp.zipped = {}
              /\ resp.queue => resp.status = 404
        /\ (HasJob(resp.jobId) /\ GetStoredJob(resp.jobId).state # "completed") =>
              /\ resp.served = <<>> /\ resp.zipped = {}
              /\ resp.queue => resp.status = 409

\* C21 witness: the file route refused, with 409, a request for a file in
\* the storage of an active job that presented an unexpired token signed
\* for that job and file.
C21_Witness ==
    /\ resp.route = "file"
    /\ resp.status = 409
    /\ GetStoredJob(resp.jobId).state = "active"
    /\ resp.file \in GetStoredJob(resp.jobId).files
    /\ \E t \in tokens :
          /\ t.jobId = resp.jobId
          /\ t.fileName = resp.file
          /\ t.token = resp.token
          /\ resp.at <= t.token.exp

\* the size of what the request names, and the first and last byte
\* position a matched Range header asks for
RequestedSize == StatSize(SafeName(Basename(resp.file)), resp.dirSize)
RangeFirst ==
    IF resp.range.first # <<>>
    THEN ParseInt(resp.range.first, Len(resp.range.first)) ELSE 0
RangeLast ==
    IF resp.range.last # <<>>
    THEN ParseInt(resp.range.last, Len(resp.range.last))
    ELSE RequestedSize - 1
\* the request passed the job and token checks and names a stored file
ReachedRangeCheck ==
    /\ resp.route = "file"
    /\ resp.queue
    /\ resp.range.match
    /\ HasJob(resp.jobId)
    /\ GetStoredJob(resp.jobId).state = "completed"
    /\ verifyDownloadToken(resp.jobId, Basename(resp.file), resp.token, resp.at)
    /\ SafeName(Basename(resp.file)) \in GetStoredJob(resp.jobId).files

OnYouTube(url) ==
    /\ url.type = "string"
    /\ url.parses
    /\ url.protocol \in {"http:", "https:"}
    /\ LET host == [k \in 1..Len(url.host) |-> ToLowerCase(url.host[k])]
       IN  \/ host \in {<<"youtu", "be">>, <<"youtube", "com">>}
           \/ (Len(host) > 2 /\ host[Len(host) - 1] = "youtube"
                             /\ host[Len(host)] = "com")

\* C22 (as claimed): a download request whose url is missing, is not a string
\* or is not an http(s) URL on youtu.be, youtube.com or a subdomain of
\* youtube.com is answered with 400, and no job with such a url is ever added
\* to the queue, on the video route and on the playlist route. (a request that
\* is turned away before its body is read, for its API key with 401 or by the
\* rate limiter with 429, is not held against the claim)
C22_BadUrlRejectedBeforeEnqueue ==
    /\ (/\ post.route \in {"video", "playlist"}
        /\ ~OnYouTube(post.url)
        /\ post.status \notin {401, 429}) => post.status = 400
    /\ \A k \in 1..Len(added) : OnYouTube(added[k].url)

\* C24 (as claimed): a request to GET /api/jobs/[id] that carries no
\* x-api-key header is not answered with 401.
C24_NoKeyNever401 ==
    (post.route = "job" /\ post.header = NoKey) => post.status # 401

\* the data of the last trackProgress call: the newest pending update, or
\* the stored progress when every update has been applied
LastDelivered ==
    IF updates # <<>> THEN updates[Len(updates)].data ELSE progress

\* C23 (as claimed): when downloadVideo has resolved, the last percent it
\* delivered to its callback is 100 (read before processVideoJob reports its
\* own final progress).
C23_LastPercentOfVideoIs100 ==
    (job.name = "video" /\ pc = "finalize" /\ movedFiles = <<>>) =>
        LastDelivered.percent = PercentCap

\* the jobs whose processJob is running
InFlight == {id \in PoolJobs : pool[id].st = "active"}

C26_EffectsConfinedToOwnDirs ==
    \A e \in effects :
        /\ \/ Under(e.path, tempDir(e.job))
           \/ Under(e.path, filesDir(e.job))
           \/ /\ e.path \in Ancestors(tempDir(e.job)) \cup Ancestors(filesDir(e.job))
              /\ e.path \in disk
        /\ \A b \in PoolJobs \ {e.job} :
              ~Under(e.path, tempDir(b)) /\ ~Under(e.path, filesDir(b))

\* C28 (as claimed): every progress update downloadPlaylist delivers while an
\* item is being downloaded carries the 0-based position of that item among
\* the items to download as videoIndex, their number as totalVideos and the
\* item's id as videoId; videoIndex lies in 0..totalVideos-1 and, as the items
\* started in one attempt only grow, never decreases over an attempt.
C28_PlaylistProgressCarriesIndex ==
    [][/\ (job.name = "playlist" /\ pc = "running"
              /\ Len(updates') > Len(updates)) =>
            LET delivered == updates'[Len(updates')].data
            IN  /\ delivered.videoIndex = Len(spawned) - 1
                /\ delivered.videoId = job.listing[spawned[Len(spawned)]]
                /\ delivered.totalVideos =
                      Len(ItemsToDownload(job.listing, job.sel))
                /\ delivered.videoIndex \in 0..(delivered.totalVideos - 1)
       /\ (Len(spawned') >= Len(spawned) \/ spawned' = <<>>)]_vars

\* C29: an event of a job other than the one the stream was opened for
\* (the only steps that change another job) puts nothing on the stream and
\* does not end it, in whatever state the stream is.
C29_OtherJobsEventsFiltered ==
    [][pool' # pool => (out' = out /\ sub' = sub)]_vars

\* C29 witness: job 12 has completed while the stream for job 1 was open
\* and had sent its first event only; the stream is still open.
C29_Witness ==
    /\ pool["12"].st = "completed"
    /\ sub = "open"
    /\ Len(out) = 1

\* every artifact of the job's result is in its final storage directory
ArtifactsStored ==
    \A k \in 1..Len(returnvalue.files) : returnvalue.files[k] \in storage

\* ... and its temp directory does not exist
ArtifactsInPlace == ArtifactsStored /\ ~tmpExists

AllowedInWindow(r) ==
    LET inWindow == {q \in BagToSet(checked) :
                        /\ q.allowed
                        /\ q.name = r.name
                        /\ q.key = r.key
                        /\ q.t >= r.start
                        /\ q.t <= r.start + WindowMs}
    IN  BagCardinality([q \in inWindow |-> CopiesIn(q, checked)])
\* the requests the limiter has denied
Denied == {q \in BagToSet(checked) : ~q.allowed}
DeniedCount == BagCardinality([q \in Denied |-> CopiesIn(q, checked)])

\* C31: for each limiter name and client key, checkRateLimit allows at most
\* max requests within one window of windowMs starting at the first allowed
\* request of the window; a denied request leaves the stored count and
\* window start as they were and never adds a job to the queue.
C31_RateLimited ==
    /\ [](\A r \in BagToSet(checked) :
             r.allowed => AllowedInWindow(r) <= RateMax(r.name))
    /\ [][DeniedCount' > DeniedCount =>
             /\ limits' = limits /\ added' = added /\ requests' = requests
             /\ post'.status = 429]_vars
    /\ [](Len(added) <= BagCardinality(checked) - DeniedCount)

\* C31 witness: a client filled a window of the playlist route and was
\* denied, its request on the video route in that window was served, and it
\* was served again on the playlist route once the window had passed.
C31_Witness ==
    \E d \in Denied :
        /\ d.name = "download:playlist"
        /\ AllowedInWindow(d) = PlaylistMax
        /\ \E v \in BagToSet(checked) :
              v.name = "download:video" /\ v.key = d.key /\ v.allowed /\ v.t = d.t
        /\ \E a \in BagToSet(checked) :
              /\ a.name = d.name /\ a.key = d.key /\ a.allowed
              /\ a.t > d.start + WindowMs
        /\ Len(added) = 2

\* C32: once executeDownload has resolved or rejected, its progress callback
\* is not invoked again and no further destination marker is read, so the
\* resolved path reflects every marker the process printed, whatever the
\* order of the streams' 'data' events and the process's 'exit' event.
C32_NothingProcessedAfterSettle ==
    [][pc = "returned" => (calls' = calls /\ filePath' = filePath)]_vars

\* C33: after a client stream has ended for any reason (a terminal event, an
\* initialisation error, or the client cancelling) its three handlers are no
\* longer registered on the queue-events emitter: the number of registered
\* handlers is three times the number of open streams.
C33_HandlersMatchOpenStreams == RegisteredHandlers = 3 * OpenStreams

\* C34: when a job is completed, its persisted progress is the final update
\* of the worker (percent 100, '... download complete'); no update issued by
\* a download callback is written after it.
C34_CompletedProgressIsFinalUpdate ==
    state = "completed" => progress = Progress(PercentCap, NoIndex)

\* the entries of a sequence are pairwise distinct
Distinct(seq) ==
    \A m \in 1..Len(seq) : \A n \in 1..Len(seq) : seq[m] = seq[n] => m = n

\* C35: a playlist job in which the subprocess of every selected item
\* succeeded (downloadPlaylist returned a path for each) completes, and its
\* result lists one artifact per selected item with pairwise distinct names
\* and paths, also when two titles sanitize to the same file name.
C35_OneArtifactPerItem ==
    /\ [][(pc \in {"finalize", "tracking", "publish"}) =>
             /\ pc' \in {"finalize", "tracking", "publish", "finally"}
             /\ pc' = "finally" => outcome' = "return"]_vars
    /\ [](state = "completed" =>
             /\ Len(returnvalue.files) = Len(ItemsToDownload(job.listing, job.sel))
             /\ Distinct(returnvalue.files))

RECURSIVE LastMarker(_)
\* the path named by the last Destination or merge line of an output text
LastMarker(lines) ==
    IF lines = <<>> THEN NoPath
    ELSE IF lines[Len(lines)].k \in {"dest", "merge"} THEN lines[Len(lines)].p
    ELSE LastMarker(SubSeq(lines, 1, Len(lines) - 1))

\* C36: the path executeDownload resolves with is the one named by the last
\* destination marker of the subprocess's output, however the output is split
\* into chunks, so two runs fed the same text resolve with the same path.
C36_ResolvesWithLastMarker ==
    (text.set /\ pc = "returned" /\ err.kind = "ok") =>
        files = <<LastMarker(text.lines)>>

\* C37: the worker publishes the completed event of a job only when the
\* persisted state of the job is completed and its result is stored.
C37_CompletedPublishedAfterPersisted ==
    [][(Len(published') > Len(published)
            /\ published'[Len(published')] = "completed") =>
          (state' = "completed" /\ returnvalue'.set)]_vars

\* the events of one type published so far
PublishedOf(type) == {n \in 1..Len(published) : published[n] = type}

\* C38: the worker has published exactly one failure event for each failed
\* attempt of the job, and exactly one completed event if the job completed.
C38_OneEventPerOutcome ==
    pc = "idle" =>
        /\ Cardinality(PublishedOf("error")) = attemptsMade
        /\ Cardinality(PublishedOf("completed")) =
              IF state = "completed" THEN 1 ELSE 0

\* connections the client has open for the job
OpenConnections == IF client.phase \in {"fetching", "reading"} THEN 1 ELSE 0

\* C39: the client has at most one open event-stream connection for a
\* tracked job, and when the job reaches a terminal state the client
\* eventually shows completed or failed for it, because it reconnects
\* whenever a connection ends without a terminal event.
C39_OneConnectionAndEventuallyShown ==
    /\ [](OpenConnections <= 1)
    /\ (state \in {"completed", "failed"}) ~>
          (client.status \in {"completed", "failed"})

====
